---- MODULE Spec2Model ----
(***************************************************************************)
(* A model of the attgo-linter analyzers.  Every analyzer is a function    *)
(* from an analysis pass (the declarations of one package and the type     *)
(* facts go/types resolved for them) to the diagnostics it reports.  Go    *)
(* strings are sequences of one-character strings, so that prefix, suffix  *)
(* and byte-wise scans are computed as the code computes them.             *)
(***************************************************************************)
EXTENDS Naturals, Sequences, FiniteSets

VARIABLES
    analyzer,     \* the analyzer (or function) a behaviour exercises
    pc,           \* "start" before the call, "done" after it returned
    pass,         \* the input: the pass of an analyzer, the arguments of a function
    diagnostics,  \* what pass.Reportf received, in order
    ret           \* the value returned by a function under test

vars == <<analyzer, pc, pass, diagnostics, ret>>

\* Go's nil.
Nil == [t |-> "nil"]

\* return nil, nil: what the run function of every analyzer returns.
ReturnNil == [result |-> Nil, err |-> Nil]

----------------------------------------------------------------------------
(* Package strings, as used by every analyzer. *)

\* strings.HasPrefix
HasPrefix(s, prefix) ==
    /\ Len(prefix) <= Len(s)
    /\ SubSeq(s, 1, Len(prefix)) = prefix

\* strings.HasSuffix
HasSuffix(s, suffix) ==
    /\ Len(suffix) <= Len(s)
    /\ SubSeq(s, Len(s) - Len(suffix) + 1, Len(s)) = suffix

\* strings.TrimPrefix
TrimPrefix(s, prefix) ==
    IF HasPrefix(s, prefix) THEN SubSeq(s, Len(prefix) + 1, Len(s)) ELSE s

\* strings.TrimSuffix
TrimSuffix(s, suffix) ==
    IF HasSuffix(s, suffix) THEN SubSeq(s, 1, Len(s) - Len(suffix)) ELSE s

\* strings.Contains, for a one-character substr
ContainsChar(s, c) == \E i \in 1..Len(s) : s[i] = c

\* All sequences over S of length 0..n.
SeqsUpTo(S, n) == UNION {[1..k -> S] : k \in 0..n}

\* Concatenation of a sequence of sequences.
RECURSIVE Flatten(_)
Flatten(ss) == IF ss = <<>> THEN <<>> ELSE Head(ss) \o Flatten(Tail(ss))

----------------------------------------------------------------------------
(* nopkglogger: matchTypePattern *)

Star == <<"*">>

\* matchTypePattern without the branch that rejects a pointer type for a
\* value pattern
matchTypePatternValueMatchesPointer(typeName, pattern) ==
    LET t == TrimPrefix(typeName, Star)
        p == TrimPrefix(pattern, Star)
        prefix == TrimSuffix(t, p)
    IN  IF HasPrefix(pattern, Star) /\ ~HasPrefix(typeName, Star)
        THEN FALSE
        ELSE /\ HasSuffix(t, p)
             /\ \/ prefix = <<>>
                \/ HasSuffix(prefix, <<"/">>)
                \/ HasSuffix(prefix, <<".">>)

\* the suffix test without the package-boundary condition
matchAtBoundaryAnywhere(typeName, pattern) == HasSuffix(typeName, pattern)

\* the suffix test at a package boundary, after the pointer handling
matchAtBoundary(typeName, pattern) ==
    /\ HasSuffix(typeName, pattern)
    /\ LET prefix == TrimSuffix(typeName, pattern)
       IN  \/ prefix = <<>>
           \/ HasSuffix(prefix, <<"/">>)
           \/ HasSuffix(prefix, <<".">>)

matchTypePattern(typeName, pattern) ==
    IF HasPrefix(pattern, Star)
    THEN IF ~HasPrefix(typeName, Star)
         THEN FALSE
         ELSE matchAtBoundary(TrimPrefix(typeName, Star), TrimPrefix(pattern, Star))
    ELSE IF HasPrefix(typeName, Star)
         THEN FALSE  \* pattern is not pointer but type is
         ELSE matchAtBoundary(typeName, pattern)

\* The characters type strings and patterns are built from: the pointer
\* marker, the two separators and two identifier letters.
MatchAlphabet == {"*", "/", ".", "a", "b"}
MatchLetters == {"a", "b"}
MaxTypeLen == 5
MaxPatternLen == 2

\* What types.TypeString prints for a (pointer to a) named or basic type:
\* a run of markers, then a qualified name that starts and ends with a letter.
TypeStrings(maxLen) ==
    {t \in SeqsUpTo(MatchAlphabet, maxLen) :
        \E k \in 0..(Len(t) - 1) :
            /\ \A i \in 1..k : t[i] = "*"
            /\ \A i \in (k + 1)..Len(t) : t[i] # "*"
            /\ t[k + 1] \in MatchLetters
            /\ t[Len(t)] \in MatchLetters}

\* A pattern is whatever string the configuration holds.
MatchArgs(maxTypeLen, maxPatternLen) ==
    [typeName : TypeStrings(maxTypeLen),
     pattern : SeqsUpTo(MatchAlphabet, maxPatternLen)]

InitMatch ==
    /\ analyzer = "matchTypePattern"
    /\ pc = "start"
    /\ pass \in MatchArgs(MaxTypeLen, MaxPatternLen)
    /\ diagnostics = <<>>
    /\ ret = FALSE

CallMatchTypePattern ==
    /\ analyzer = "matchTypePattern"
    /\ pc = "start"
    /\ ret' = matchTypePattern(pass.typeName, pass.pattern)
    /\ pc' = "done"
    /\ UNCHANGED <<analyzer, pass, diagnostics>>

NextMatch == CallMatchTypePattern

SpecMatch == InitMatch /\ [][NextMatch]_vars

MatchDone == analyzer = "matchTypePattern" /\ pc = "done"

\* The boundary rule stated on positions: the pattern occupies the last
\* Len(p) characters of t and the character before it, if any, is a separator.
EndsAtBoundary(t, p) ==
    \E k \in 0..Len(t) :
        /\ Len(t) - k = Len(p)
        /\ \A i \in 1..Len(p) : t[k + i] = p[i]
        /\ (k = 0 \/ t[k] \in {"/", "."})

StartsWithStar(s) == Len(s) > 0 /\ s[1] = "*"

DropFirst(s) == [i \in 1..(Len(s) - 1) |-> s[i + 1]]

Stripped(s) == IF StartsWithStar(s) THEN DropFirst(s) ELSE s

\* C1: when the type string and the pattern agree on the indirection marker,
\* matchTypePattern returns true exactly when the stripped type string ends
\* with the stripped pattern and what precedes the match is empty or ends
\* with '/' or '.'; a pattern that is only the tail of a longer identifier
\* does not match.
C1_BoundaryRule ==
    MatchDone /\ (StartsWithStar(pass.typeName) <=> StartsWithStar(pass.pattern))
        => (ret <=> EndsAtBoundary(Stripped(pass.typeName), Stripped(pass.pattern)))

\* C1 witness: a pattern that is the tail of a longer identifier ("b" against
\* "a/ab") was matched against and rejected.
C1_Witness ==
    /\ MatchDone
    /\ pass.typeName = <<"a", "/", "a", "b">>
    /\ pass.pattern = <<"b">>
    /\ ret = FALSE

\* C2 as stated: the matcher fails when exactly one side has the marker, and
\* when both have it the result is that of matching the two strings with the
\* marker removed.
C2_AsStated ==
    MatchDone =>
        /\ (StartsWithStar(pass.typeName) # StartsWithStar(pass.pattern)) => ret = FALSE
        /\ (StartsWithStar(pass.typeName) /\ StartsWithStar(pass.pattern))
            => ret = matchTypePattern(DropFirst(pass.typeName), DropFirst(pass.pattern))

\* C2 amended: the matcher fails when exactly one side has the marker; when
\* both have it the result is the boundary rule on the two strings with one
\* leading marker removed from each, which is the matcher's result on them
\* when neither remaining string still starts with a marker.
C2_IndirectionRule ==
    MatchDone =>
        /\ (StartsWithStar(pass.typeName) # StartsWithStar(pass.pattern)) => ret = FALSE
        /\ (StartsWithStar(pass.typeName) /\ StartsWithStar(pass.pattern))
            => /\ ret = EndsAtBoundary(DropFirst(pass.typeName), DropFirst(pass.pattern))
               /\ (~StartsWithStar(DropFirst(pass.typeName))
                        /\ ~StartsWithStar(DropFirst(pass.pattern)))
                    => ret = matchTypePattern(DropFirst(pass.typeName),
                                              DropFirst(pass.pattern))

\* C2 witness: a pointer-to-pointer type was matched by a pointer pattern,
\* although the pointer type left after stripping does not match the value
\* pattern left after stripping.
C2_Witness ==
    /\ MatchDone
    /\ pass.typeName = <<"*", "*", "a", ".", "b">>
    /\ pass.pattern = <<"*", "b">>
    /\ ret = TRUE
    /\ ~matchTypePattern(DropFirst(pass.typeName), DropFirst(pass.pattern))

----------------------------------------------------------------------------
(* nopkglogger: the analyzer *)

\* isLoggerType: the type string matches any of the configured patterns.
isLoggerType(t, loggerTypePatterns) ==
    \E i \in 1..Len(loggerTypePatterns) : matchTypePattern(t, loggerTypePatterns[i])

\* A diagnostic of nopkglogger: the position of the name it reports, as
\* (declaration, spec, name) indexes into the file.
LoggerDiag(d, s, n) == [analyzer |-> "attgo_no_pkg_logger", pos |-> <<d, s, n>>]

\* the name loop reporting only the first name of a spec
RECURSIVE loggerNamesFirstOnly(_, _, _, _, _)
loggerNamesFirstOnly(names, n, d, s, patterns) ==
    IF n > 1 \/ n > Len(names)
    THEN <<>>
    ELSE (IF /\ names[n].obj = "pkg"
             /\ isLoggerType(names[n].type, patterns)
          THEN <<LoggerDiag(d, s, n)>>
          ELSE <<>>) \o loggerNamesFirstOnly(names, n + 1, d, s, patterns)

\* for _, name := range valueSpec.Names
RECURSIVE loggerNames(_, _, _, _, _)
loggerNames(names, n, d, s, patterns) ==
    IF n > Len(names)
    THEN <<>>
    ELSE (IF /\ names[n].obj # "nil"     \* obj == nil: continue
             /\ names[n].obj = "pkg"     \* obj.Parent() != obj.Pkg().Scope(): continue
             /\ isLoggerType(names[n].type, patterns)
          THEN <<LoggerDiag(d, s, n)>>
          ELSE <<>>) \o loggerNames(names, n + 1, d, s, patterns)

\* for _, spec := range genDecl.Specs
RECURSIVE loggerSpecs(_, _, _, _)
loggerSpecs(specs, s, d, patterns) ==
    IF s > Len(specs)
    THEN <<>>
    ELSE (IF specs[s].node # "ValueSpec"
          THEN <<>>
          ELSE loggerNames(specs[s].names, 1, d, s, patterns))
            \o loggerSpecs(specs, s + 1, d, patterns)

\* for _, decl := range file.Decls
RECURSIVE loggerDecls(_, _, _)
loggerDecls(decls, d, patterns) ==
    IF d > Len(decls)
    THEN <<>>
    ELSE (IF decls[d].node # "GenDecl"
          THEN <<>>
          ELSE loggerSpecs(decls[d].specs, 1, d, patterns))
            \o loggerDecls(decls, d + 1, patterns)

\* runner.run of nopkglogger: the diagnostics reported for one file
nopkgloggerRun(p) == loggerDecls(p.decls, 1, p.loggerTypePatterns)

\* Type strings of declared names: a logger, a pointer to it, and a type
\* whose name merely ends like the logger's ("r/xz.L" against "z.L").
LoggerValue == <<"r", "/", "z", ".", "L">>
LoggerPointer == <<"*", "r", "/", "z", ".", "L">>
LookAlike == <<"r", "/", "x", "z", ".", "L">>
ValuePattern == <<"z", ".", "L">>
PointerPattern == <<"*", "z", ".", "L">>

\* A name of a package-level ValueSpec, with what go/types resolved for it:
\* obj is "pkg" when the object's parent is the package scope, "blank" when
\* it has no parent scope (the blank identifier), "nil" when ObjectOf has no
\* object for it.
PkgIdents ==
    [type : {LoggerValue, LoggerPointer, LookAlike}, obj : {"pkg"}]
    \cup [type : {LoggerValue}, obj : {"blank", "nil"}]
\* A struct field (the fields of a TypeSpec) or a variable declared in a
\* function body: never an object of the package scope.
FieldIdents == [type : {LoggerValue}, obj : {"field"}]
LocalIdents == [type : {LoggerValue}, obj : {"local"}]

MaxNames == 3

\* The ValueSpecs of one var declaration that declare k names in all.
RECURSIVE ValueSpecSeqs(_)
ValueSpecSeqs(k) ==
    IF k = 0
    THEN {<<>>}
    ELSE UNION {
            {<<[node |-> "ValueSpec", names |-> ns]>> \o rest :
                ns \in [1..j -> PkgIdents], rest \in ValueSpecSeqs(k - j)} :
            j \in 1..k}

\* The declarations that hold k names: a var declaration, a struct type
\* declaration with k fields, a function with k local variables.
LoggerDeclsOfSize(k) ==
    {[node |-> "GenDecl", specs |-> ss] : ss \in ValueSpecSeqs(k)}
    \cup {[node |-> "GenDecl", specs |-> <<[node |-> "TypeSpec", names |-> ns]>>] :
            ns \in [1..k -> FieldIdents]}
    \cup {[node |-> "FuncDecl", specs |-> <<[node |-> "ValueSpec", names |-> ns]>>] :
            ns \in [1..k -> LocalIdents]}

\* The files that hold exactly k names.
RECURSIVE LoggerFilesOfSize(_)
LoggerFilesOfSize(k) ==
    IF k = 0
    THEN {<<>>}
    ELSE UNION {
            {<<dcl>> \o rest :
                dcl \in LoggerDeclsOfSize(j), rest \in LoggerFilesOfSize(k - j)} :
            j \in 1..k}

LoggerPasses(maxNames) ==
    [decls : UNION {LoggerFilesOfSize(k) : k \in 0..maxNames},
     loggerTypePatterns : {<<ValuePattern>>, <<ValuePattern, PointerPattern>>}]

InitLogger ==
    /\ analyzer = "attgo_no_pkg_logger"
    /\ pc = "start"
    /\ pass \in LoggerPasses(MaxNames)
    /\ diagnostics = <<>>
    /\ ret = FALSE

RunNoPkgLogger ==
    /\ analyzer = "attgo_no_pkg_logger"
    /\ pc = "start"
    /\ diagnostics' = nopkgloggerRun(pass)
    /\ pc' = "done"
    /\ ret' = ReturnNil
    /\ UNCHANGED <<analyzer, pass>>

NextLogger == RunNoPkgLogger

SpecLogger == InitLogger /\ [][NextLogger]_vars

LoggerDone == analyzer = "attgo_no_pkg_logger" /\ pc = "done"

\* How many diagnostics are at a position.
CountAt(diags, pos) == Cardinality({i \in 1..Len(diags) : diags[i].pos = pos})

\* The type string matches a configured pattern under the boundary rule of
\* C1, with the indirection marker agreeing.
MatchesSomePattern(t, patterns) ==
    \E i \in 1..Len(patterns) :
        /\ StartsWithStar(t) <=> StartsWithStar(patterns[i])
        /\ EndsAtBoundary(Stripped(t), Stripped(patterns[i]))

\* C3: every name of a package-level variable declaration that is an object
\* of the package scope has exactly one diagnostic when its type matches a
\* configured pattern and none otherwise, also when several names share a
\* declaration; struct fields and function-local variables have none.
C3_LoggerPlacement ==
    LoggerDone =>
        \A d \in 1..Len(pass.decls) :
            \A s \in 1..Len(pass.decls[d].specs) :
                \A n \in 1..Len(pass.decls[d].specs[s].names) :
                    LET id == pass.decls[d].specs[s].names[n]
                        cnt == CountAt(diagnostics, <<d, s, n>>)
                    IN  /\ id.obj = "pkg" =>
                            cnt = (IF MatchesSomePattern(id.type, pass.loggerTypePatterns)
                                   THEN 1 ELSE 0)
                        /\ id.obj \in {"field", "local"} => cnt = 0

\* C3 witness: one declaration block with two loggers, a value and a pointer,
\* both flagged, next to a struct field of the same type that is not.
C3_Witness ==
    /\ LoggerDone
    /\ Len(pass.decls) = 2
    /\ pass.decls[1].node = "GenDecl"
    /\ Len(pass.decls[1].specs) = 2
    /\ pass.decls[1].specs[1].names = <<[type |-> LoggerValue, obj |-> "pkg"]>>
    /\ pass.decls[1].specs[2].names = <<[type |-> LoggerPointer, obj |-> "pkg"]>>
    /\ pass.decls[2].specs[1].names = <<[type |-> LoggerValue, obj |-> "field"]>>
    /\ diagnostics = <<LoggerDiag(1, 1, 1), LoggerDiag(1, 2, 1)>>

----------------------------------------------------------------------------
(* enumiota *)

\* isEnumTypeName that tests for equality with a suffix instead of a suffix
isEnumTypeNameWholeName(name, enumTypeSuffixes) ==
    \E i \in 1..Len(enumTypeSuffixes) : name = enumTypeSuffixes[i]

\* isEnumTypeName: the type name ends with one of the configured suffixes.
isEnumTypeName(name, enumTypeSuffixes) ==
    \E i \in 1..Len(enumTypeSuffixes) : HasSuffix(name, enumTypeSuffixes[i])

\* isStringType: the type is the basic type string.
isStringType(t) == t = "string"

\* hasStringLiteralValue that looks at the first value only
hasStringLiteralValueFirstOnly(values) ==
    /\ Len(values) # 0
    /\ values[1] = "STRING"

\* hasStringLiteralValue: some value of the spec is a BasicLit of kind STRING.
hasStringLiteralValue(values) ==
    /\ Len(values) # 0
    /\ \E i \in 1..Len(values) : values[i] = "STRING"

\* First pass of run: the names of the TypeSpecs of the TYPE declarations
\* that have an enum-like suffix (the keys of the enumTypes map).
enumTypes(decls, enumTypeSuffixes) ==
    UNION {
        {decls[d].specs[s].name :
            s \in {t \in 1..Len(decls[d].specs) :
                    /\ decls[d].specs[t].node = "TypeSpec"
                    /\ isEnumTypeName(decls[d].specs[t].name, enumTypeSuffixes)}} :
        d \in {e \in 1..Len(decls) : decls[e].node = "GenDecl" /\ decls[e].tok = "TYPE"}}

\* A diagnostic of enumiota: reported at valueSpec.Pos(), the position of the
\* first name of the spec, and naming that first constant.
EnumDiag(d, s) == [analyzer |-> "attgo_enum_iota", pos |-> <<d, s, 1>>]

\* checkConstDecl: for _, spec := range genDecl.Specs
RECURSIVE checkConstDecl(_, _, _, _)
checkConstDecl(specs, s, d, enums) ==
    IF s > Len(specs)
    THEN <<>>
    ELSE (IF /\ specs[s].node = "ValueSpec"
             /\ Len(specs[s].names) # 0
             /\ specs[s].type.kind = "Named"      \* the type of Names[0]
             /\ specs[s].type.name \in enums
             /\ isStringType(specs[s].type.underlying)
             /\ hasStringLiteralValue(specs[s].values)
          THEN <<EnumDiag(d, s)>>
          ELSE <<>>) \o checkConstDecl(specs, s + 1, d, enums)

\* Second pass of run: the CONST declarations, in order.
RECURSIVE enumConstDecls(_, _, _)
enumConstDecls(decls, d, enums) ==
    IF d > Len(decls)
    THEN <<>>
    ELSE (IF decls[d].node # "GenDecl" \/ decls[d].tok # "CONST"
          THEN <<>>
          ELSE checkConstDecl(decls[d].specs, 1, d, enums))
            \o enumConstDecls(decls, d + 1, enums)

\* Mutant of enumiotaRun: one loop, in which a constant is judged against
\* the types declared before it.
RECURSIVE enumOnePassDecls(_, _, _)
enumOnePassDecls(decls, d, enumTypeSuffixes) ==
    IF d > Len(decls)
    THEN <<>>
    ELSE (IF decls[d].node # "GenDecl" \/ decls[d].tok # "CONST"
          THEN <<>>
          ELSE checkConstDecl(decls[d].specs, 1, d,
                              enumTypes(SubSeq(decls, 1, d - 1), enumTypeSuffixes)))
            \o enumOnePassDecls(decls, d + 1, enumTypeSuffixes)
enumiotaRunOnePass(p) == enumOnePassDecls(p.decls, 1, p.enumTypeSuffixes)

\* runner.run of enumiota
enumiotaRun(p) == enumConstDecls(p.decls, 1, enumTypes(p.decls, p.enumTypeSuffixes))

\* Go identifiers and suffixes as strings.
SANType == <<"S", "A", "N", "T", "y", "p", "e">>
DataKind == <<"D", "a", "t", "a", "K", "i", "n", "d">>
Color == <<"C", "o", "l", "o", "r">>
DefaultEnumTypeSuffixes ==
    << <<"T", "y", "p", "e">>, <<"S", "t", "a", "t", "u", "s">>,
       <<"S", "t", "a", "t", "e">>, <<"K", "i", "n", "d">>, <<"M", "o", "d", "e">> >>

\* The types a package may declare, each with its underlying type.
EnumTypeSpecs ==
    {[node |-> "TypeSpec", name |-> SANType, underlying |-> "string"],
     [node |-> "TypeSpec", name |-> DataKind, underlying |-> "uint64"],
     [node |-> "TypeSpec", name |-> Color, underlying |-> "string"]}

\* The resolved type of a constant: an unnamed basic type, a named type of
\* this package, or a named type of an imported package (here one that has
\* the name of a local type).
ConstTypes ==
    {[kind |-> "Basic", name |-> <<>>, underlying |-> "string", pkg |-> ""]}
    \cup {[kind |-> "Named", name |-> t.name, underlying |-> t.underlying, pkg |-> "local"] :
            t \in EnumTypeSpecs}
    \cup {[kind |-> "Named", name |-> SANType, underlying |-> "string", pkg |-> "other"]}

\* The values a constant of the type can be given: a string literal or an
\* integer literal, as the underlying type allows, or an expression that is
\* no literal (iota, another constant, a concatenation).
ValueKinds(t) == IF t.underlying = "string" THEN {"STRING", "EXPR"} ELSE {"INT", "EXPR"}

\* The type of a constant declared with a string literal and no type.
UntypedString == [kind |-> "Basic", name |-> <<>>, underlying |-> "string", pkg |-> ""]

\* One ValueSpec: one or two names, with no values (implicit repetition) or
\* one value for each name. type is the type of Names[0] and otherType that
\* of a second name: the same where the spec declares a type, and possibly
\* another where it declares none, as in const A, B = SANType("a"), "b".
EnumValueSpecs ==
    UNION {
        {[node |-> "ValueSpec", names |-> ns, type |-> t, otherType |-> t, values |-> vs] :
            ns \in {<<"A">>, <<"A", "B">>},
            vs \in {<<>>} \cup [1..1 -> ValueKinds(t)] \cup [1..2 -> ValueKinds(t)]} :
        t \in ConstTypes}
    \cup {[node |-> "ValueSpec", names |-> <<"A", "B">>, type |-> t,
           otherType |-> UntypedString, values |-> <<"EXPR", v>>] :
            t \in {u \in ConstTypes : u.kind = "Named" /\ u.underlying = "string"},
            v \in {"STRING", "EXPR"}}

EnumDecls ==
    {[node |-> "GenDecl", tok |-> "TYPE", specs |-> <<t>>] : t \in EnumTypeSpecs}
    \cup {[node |-> "GenDecl", tok |-> "CONST", specs |-> <<v>>] :
            v \in {w \in EnumValueSpecs : Len(w.values) \in {0, Len(w.names)}}}
    \cup {[node |-> "GenDecl", tok |-> "VAR", specs |-> <<v>>] :
            v \in {w \in EnumValueSpecs :
                    /\ w.names = <<"A">> /\ w.values = <<"STRING">>
                    /\ w.type.name = SANType /\ w.type.pkg = "local"}}

MaxEnumDecls == 2

\* A package type-checks: no type is declared twice, and a constant of a
\* local named type has that type declared in the package.
EnumWellFormed(decls) ==
    /\ \A d, e \in 1..Len(decls) :
            (decls[d].tok = "TYPE" /\ decls[e].tok = "TYPE"
                /\ decls[d].specs[1].name = decls[e].specs[1].name) => d = e
    /\ \A d \in 1..Len(decls) :
            (decls[d].tok # "TYPE" /\ decls[d].specs[1].type.pkg = "local")
                => \E e \in 1..Len(decls) :
                        /\ decls[e].tok = "TYPE"
                        /\ decls[e].specs[1].name = decls[d].specs[1].type.name

EnumPasses(maxDecls) ==
    [decls : {ds \in SeqsUpTo(EnumDecls, maxDecls) : EnumWellFormed(ds)},
     enumTypeSuffixes : {DefaultEnumTypeSuffixes}]

InitEnum ==
    /\ analyzer = "attgo_enum_iota"
    /\ pc = "start"
    /\ pass \in EnumPasses(MaxEnumDecls)
    /\ diagnostics = <<>>
    /\ ret = FALSE

RunEnumIota ==
    /\ analyzer = "attgo_enum_iota"
    /\ pc = "start"
    /\ diagnostics' = enumiotaRun(pass)
    /\ pc' = "done"
    /\ ret' = ReturnNil
    /\ UNCHANGED <<analyzer, pass>>

NextEnum == RunEnumIota

SpecEnum == InitEnum /\ [][NextEnum]_vars

EnumDone == analyzer = "attgo_enum_iota" /\ pc = "done"

\* The name ends with one of the suffixes, position by position.
EndsWithSuffix(name, suffixes) ==
    \E i \in 1..Len(suffixes) :
        /\ Len(suffixes[i]) <= Len(name)
        /\ \A j \in 1..Len(suffixes[i]) :
                name[Len(name) - Len(suffixes[i]) + j] = suffixes[i][j]

\* C4: a constant is flagged if and only if its declared type is a type
\* declared in the package whose name ends with a configured suffix, that
\* type's underlying type is string, and the value assigned to the constant
\* is a string literal.
C4_EnumEncoding ==
    EnumDone =>
        \A d \in 1..Len(pass.decls) :
            pass.decls[d].tok = "CONST" =>
                \A n \in 1..Len(pass.decls[d].specs[1].names) :
                    LET vs == pass.decls[d].specs[1]
                    IN  (CountAt(diagnostics, <<d, 1, n>>) > 0)
                        <=> /\ vs.type.kind = "Named"
                            /\ vs.type.pkg = "local"
                            /\ EndsWithSuffix(vs.type.name, pass.enumTypeSuffixes)
                            /\ vs.type.underlying = "string"
                            /\ Len(vs.values) >= n
                            /\ vs.values[n] = "STRING"

----------------------------------------------------------------------------
(* interfacecheck *)

\* Syntax tree nodes, with the fields the analyzer reads.
Ident(name) == [node |-> "Ident", name |-> name]
SelectorExpr(x, sel) == [node |-> "SelectorExpr", x |-> x, sel |-> sel]
StarExpr(x) == [node |-> "StarExpr", x |-> x]
ParenExpr(x) == [node |-> "ParenExpr", x |-> x]
CallExpr(fun, args) == [node |-> "CallExpr", fun |-> fun, args |-> args]
CompositeLit(type) == [node |-> "CompositeLit", type |-> type]
ArrayType(elt) == [node |-> "ArrayType", elt |-> elt]
BasicLit(kind) == [node |-> "BasicLit", kind |-> kind]
NoExpr == [node |-> "nil"]

\* Mutant of getInterfaceName: a package-qualified name is no name.
getInterfaceNameBareOnly(expr) ==
    IF expr.node = "Ident" THEN expr.name ELSE ""

\* getInterfaceName: the name of an identifier or of a selector, else "".
getInterfaceName(expr) ==
    IF expr.node = "Ident" THEN expr.name
    ELSE IF expr.node = "SelectorExpr" THEN expr.sel.name
    ELSE ""

\* getStructNameFromNilCast without the test that the argument is nil
getStructNameFromNilCastAnyArg(vs) ==
    IF Len(vs.values) # 1 THEN ""
    ELSE LET call == vs.values[1]
         IN  IF call.node # "CallExpr" THEN ""
             ELSE IF Len(call.args) # 1 THEN ""
             ELSE IF call.fun.node # "ParenExpr" THEN ""
             ELSE IF call.fun.x.node # "StarExpr" THEN ""
             ELSE getInterfaceName(call.fun.x.x)

\* getStructNameFromNilCast: the type name in a single value (*Type)(nil).
getStructNameFromNilCast(vs) ==
    IF Len(vs.values) # 1 THEN ""
    ELSE LET call == vs.values[1]
         IN  IF call.node # "CallExpr" THEN ""
             ELSE IF Len(call.args) # 1 THEN ""
             ELSE IF call.args[1].node # "Ident" \/ call.args[1].name # "nil" THEN ""
             ELSE IF call.fun.node # "ParenExpr" THEN ""
             ELSE IF call.fun.x.node # "StarExpr" THEN ""
             ELSE IF call.fun.x.x.node = "Ident" THEN call.fun.x.x.name
             ELSE IF call.fun.x.x.node = "SelectorExpr" THEN call.fun.x.x.sel.name
             ELSE ""

\* collectExistingChecks: the keys ifaceName + ":" + structName of the
\* var _ Interface = (*Struct)(nil) specs, as (interface, struct) pairs.
collectExistingChecks(decls) ==
    UNION {
        {<<getInterfaceName(decls[d].specs[s].type),
           getStructNameFromNilCast(decls[d].specs[s])>> :
            s \in {t \in 1..Len(decls[d].specs) :
                    LET vs == decls[d].specs[t]
                    IN  /\ vs.node = "ValueSpec"
                        /\ Len(vs.names) = 1 /\ vs.names[1] = "_"
                        /\ getInterfaceName(vs.type) # ""
                        /\ getStructNameFromNilCast(vs) # ""}} :
        d \in {e \in 1..Len(decls) : decls[e].node = "GenDecl" /\ decls[e].tok = "VAR"}}

\* types.Implements for a struct type and for a pointer to it: the method
\* set holds every method of the interface.
ImplementsValue(st, iface) == iface.methods \subseteq st.valueMethods
ImplementsPointer(st, iface) == iface.methods \subseteq (st.valueMethods \cup st.pointerMethods)

\* The first loop of run: the interfaces with at least one method and the
\* structs, among the type names of the package scope.
ifaceInterfaces(scope) ==
    {n \in DOMAIN scope : scope[n].kind = "interface" /\ Cardinality(scope[n].methods) > 0}
ifaceStructs(scope) == {n \in DOMAIN scope : scope[n].kind = "struct"}

\* A diagnostic of interfacecheck: at the struct's TypeSpec (findStructPos),
\* naming the struct and the interface.
IfaceDiag(structName, ifaceName) ==
    [analyzer |-> "attgo_interface_check", pos |-> structName, iface |-> ifaceName]

\* Mutant of ifaceLoop: the loop is left at the first interface reported.
ifaceLoopFirstReport(p, existingChecks, structName, ifaceOrder, i) ==
    LET hits == {j \in i..Len(ifaceOrder) :
                    /\ \/ ImplementsValue(p.scope[structName], p.scope[ifaceOrder[j]])
                       \/ ImplementsPointer(p.scope[structName], p.scope[ifaceOrder[j]])
                    /\ <<ifaceOrder[j], structName>> \notin existingChecks}
    IN  IF hits = {} THEN <<>>
        ELSE <<IfaceDiag(structName,
                         ifaceOrder[CHOOSE j \in hits : \A h \in hits : j <= h])>>

\* for ifaceName, iface := range interfaces, in the order the map yields
RECURSIVE ifaceLoop(_, _, _, _, _)
ifaceLoop(p, existingChecks, structName, ifaceOrder, i) ==
    IF i > Len(ifaceOrder)
    THEN <<>>
    ELSE (IF /\ \/ ImplementsValue(p.scope[structName], p.scope[ifaceOrder[i]])
                \/ ImplementsPointer(p.scope[structName], p.scope[ifaceOrder[i]])
             /\ <<ifaceOrder[i], structName>> \notin existingChecks
          THEN <<IfaceDiag(structName, ifaceOrder[i])>>
          ELSE <<>>) \o ifaceLoop(p, existingChecks, structName, ifaceOrder, i + 1)

\* for structName := range structs, in the order the map yields; the inner
\* range over interfaces starts anew for every struct, ifaceOrders[k] being
\* the order it yields for the k-th struct.
RECURSIVE structLoop(_, _, _, _, _)
structLoop(p, existingChecks, structOrder, ifaceOrders, k) ==
    IF k > Len(structOrder)
    THEN <<>>
    ELSE ifaceLoop(p, existingChecks, structOrder[k], ifaceOrders[k], 1)
            \o structLoop(p, existingChecks, structOrder, ifaceOrders, k + 1)

\* run of interfacecheck, for one iteration order of the struct map and one
\* of the interface map for each struct
interfacecheckRun(p, structOrder, ifaceOrders) ==
    structLoop(p, collectExistingChecks(p.decls), structOrder, ifaceOrders, 1)

\* The orders in which a Go map with the keys S may be iterated.
Orders(S) ==
    {o \in [1..Cardinality(S) -> S] : \A i, j \in 1..Cardinality(S) : o[i] = o[j] => i = j}

\* The types of the package: two structs and two interfaces, by the methods
\* they have.
StructTypes(valueMethods, pointerMethods) ==
    [kind |-> "struct", valueMethods |-> valueMethods, pointerMethods |-> pointerMethods]
InterfaceTypes(methods) == [kind |-> "interface", methods |-> methods]
BasicType == [kind |-> "basic"]

IfaceScopes ==
    {[n \in {"S", "T", "I", "J"} |->
        IF n = "S" THEN st ELSE IF n = "T" THEN tt ELSE IF n = "I" THEN it ELSE jt] :
        st \in {StructTypes({}, {}), StructTypes({"Read"}, {}), StructTypes({}, {"Read"}),
                StructTypes({}, {"Read", "Close"})},
        tt \in {StructTypes({}, {"Read"}), BasicType},
        it \in {InterfaceTypes({}), InterfaceTypes({"Read"}), InterfaceTypes({"Read", "Close"})},
        jt \in {InterfaceTypes({"Read"}), BasicType}}

\* The compliance check var _ I = (*S)(nil) of an interface and a struct
\* name, each bare or package-qualified.
NilCast(typeExpr) == CallExpr(ParenExpr(StarExpr(typeExpr)), <<Ident("nil")>>)
TypeRefs(name) == {Ident(name), SelectorExpr(Ident("pkg"), Ident(name))}
ComplianceChecks ==
    UNION {
        {[node |-> "ValueSpec", names |-> <<"_">>, type |-> i, values |-> <<NilCast(st)>>] :
            i \in TypeRefs("I") \cup {Ident("J")}, st \in TypeRefs("S") \cup {Ident("T")}}}

\* Var specs that differ from var _ I = (*S)(nil) in one respect each.
NearChecks ==
    LET check(names, type, values) ==
            [node |-> "ValueSpec", names |-> names, type |-> type, values |-> values]
        cast == NilCast(Ident("S"))
    IN  {check(<<"x">>, Ident("I"), <<cast>>),
         check(<<"_", "_">>, Ident("I"), <<cast>>),
         check(<<"_">>, ArrayType(Ident("I")), <<cast>>),
         check(<<"_">>, NoExpr, <<cast>>),
         check(<<"_">>, Ident("I"), <<>>),
         check(<<"_">>, Ident("I"), <<cast, cast>>),
         check(<<"_">>, Ident("I"), <<CompositeLit(Ident("S"))>>),
         check(<<"_">>, Ident("I"), <<CallExpr(ParenExpr(StarExpr(Ident("S"))), <<>>)>>),
         check(<<"_">>, Ident("I"), <<CallExpr(ParenExpr(StarExpr(Ident("S"))), <<Ident("x")>>)>>),
         check(<<"_">>, Ident("I"),
               <<CallExpr(ParenExpr(StarExpr(Ident("S"))), <<CompositeLit(Ident("S"))>>)>>),
         check(<<"_">>, Ident("I"), <<CallExpr(Ident("S"), <<Ident("nil")>>)>>),
         check(<<"_">>, Ident("I"), <<CallExpr(ParenExpr(Ident("S")), <<Ident("nil")>>)>>),
         check(<<"_">>, Ident("I"),
               <<CallExpr(ParenExpr(StarExpr(ArrayType(Ident("S")))), <<Ident("nil")>>)>>)}

IfaceDecls ==
    {[node |-> "GenDecl", tok |-> "VAR", specs |-> <<vs>>] :
        vs \in ComplianceChecks \cup NearChecks}
    \cup {[node |-> "GenDecl", tok |-> "CONST",
           specs |-> <<[node |-> "ValueSpec", names |-> <<"_">>, type |-> NoExpr,
                        values |-> <<BasicLit("INT")>>]>>]}

MaxVarDecls == 1

IfacePasses(maxDecls) == [scope : IfaceScopes, decls : SeqsUpTo(IfaceDecls, maxDecls)]

InitIface ==
    /\ analyzer = "attgo_interface_check"
    /\ pc = "start"
    /\ pass \in IfacePasses(MaxVarDecls)
    /\ diagnostics = <<>>
    /\ ret = FALSE

RunInterfaceCheck ==
    /\ analyzer = "attgo_interface_check"
    /\ pc = "start"
    /\ \E structOrder \in Orders(ifaceStructs(pass.scope)) :
        \E ifaceOrders \in [1..Len(structOrder) -> Orders(ifaceInterfaces(pass.scope))] :
            diagnostics' = interfacecheckRun(pass, structOrder, ifaceOrders)
    /\ pc' = "done"
    /\ ret' = ReturnNil
    /\ UNCHANGED <<analyzer, pass>>

NextIface == RunInterfaceCheck

SpecIface == InitIface /\ [][NextIface]_vars

IfaceDone == analyzer = "attgo_interface_check" /\ pc = "done"

\* The var spec is the assertion var _ I = (*S)(nil) for the two names, each
\* written bare or package-qualified.
IsAssertionFor(vs, ifaceName, structName) ==
    /\ vs.names = <<"_">>
    /\ vs.type \in {Ident(ifaceName), SelectorExpr(Ident("pkg"), Ident(ifaceName))}
    /\ vs.values \in {<<NilCast(Ident(structName))>>,
                      <<NilCast(SelectorExpr(Ident("pkg"), Ident(structName)))>>}

AssertionExists(decls, ifaceName, structName) ==
    \E d \in 1..Len(decls) :
        /\ decls[d].tok = "VAR"
        /\ IsAssertionFor(decls[d].specs[1], ifaceName, structName)

CountPair(diags, structName, ifaceName) ==
    Cardinality({i \in 1..Len(diags) : diags[i].pos = structName /\ diags[i].iface = ifaceName})

\* C5: for every struct S and interface I of the package, the number of
\* diagnostics naming the pair is 1 when I has a method, S or *S has every
\* method of I, and no assertion var _ I = (*S)(nil) exists, and 0 otherwise;
\* no diagnostic names anything but such a pair.
C5_InterfaceConformance ==
    IfaceDone =>
        /\ \A sn, in \in DOMAIN pass.scope :
            (pass.scope[sn].kind = "struct" /\ pass.scope[in].kind = "interface") =>
                CountPair(diagnostics, sn, in) =
                    (IF /\ pass.scope[in].methods # {}
                        /\ \A m \in pass.scope[in].methods :
                                m \in pass.scope[sn].valueMethods
                                \/ m \in pass.scope[sn].pointerMethods
                        /\ ~AssertionExists(pass.decls, in, sn)
                     THEN 1 ELSE 0)
        /\ \A i \in 1..Len(diagnostics) :
            /\ pass.scope[diagnostics[i].pos].kind = "struct"
            /\ pass.scope[diagnostics[i].iface].kind = "interface"

\* C5 witness: S implements both I and J through pointer receivers, the
\* assertion for (I, S) exists, and the only diagnostics are for (J, S) and
\* for T, which has no assertion, one for each interface it implements.
C5_Witness ==
    /\ IfaceDone
    /\ pass.scope["S"] = StructTypes({}, {"Read"})
    /\ pass.scope["T"] = StructTypes({}, {"Read"})
    /\ pass.scope["I"] = InterfaceTypes({"Read"})
    /\ pass.scope["J"] = InterfaceTypes({"Read"})
    /\ Len(pass.decls) = 1
    /\ pass.decls[1].tok = "VAR"
    /\ IsAssertionFor(pass.decls[1].specs[1], "I", "S")
    /\ Len(diagnostics) = 3
    /\ CountPair(diagnostics, "S", "I") = 0
    /\ CountPair(diagnostics, "S", "J") = 1
    /\ CountPair(diagnostics, "T", "I") = 1
    /\ CountPair(diagnostics, "T", "J") = 1

----------------------------------------------------------------------------
(* rawstring *)

Quote == "\""
Backslash == "\\"
\* the backtick character (which a TLA+ string cannot hold)
Backtick == "BACKTICK"

\* minEscapesForWarning
minEscapesForWarning == 3

\* s[1 : len(s)-1]
RemoveQuotes(s) == SubSeq(s, 2, Len(s) - 1)

\* the scan of countEscapes that counts every escape pair, \n, \t and \r too
RECURSIVE countEscapesFromAll(_, _)
countEscapesFromAll(s, i) ==
    IF i > Len(s)
    THEN 0
    ELSE IF s[i] = Backslash /\ i + 1 <= Len(s)
         THEN 1 + countEscapesFromAll(s, i + 2)
         ELSE countEscapesFromAll(s, i + 1)

\* The loop of countEscapes over the unquoted body, from (1-based) index i.
RECURSIVE countEscapesFrom(_, _)
countEscapesFrom(s, i) ==
    IF i > Len(s)
    THEN 0
    ELSE IF s[i] = Backslash /\ i + 1 <= Len(s)
         THEN (IF s[i + 1] \in {Quote, Backslash} THEN 1
               ELSE IF s[i + 1] \in {"n", "t", "r"} THEN 0
               ELSE 1) + countEscapesFrom(s, i + 2)
         ELSE countEscapesFrom(s, i + 1)

\* countEscapes
countEscapes(s) == IF Len(s) < 2 THEN 0 ELSE countEscapesFrom(RemoveQuotes(s), 1)

\* The loop of interpretString over the unquoted body, from index i.
RECURSIVE interpretStringFrom(_, _)
interpretStringFrom(s, i) ==
    IF i > Len(s)
    THEN <<>>
    ELSE IF s[i] = Backslash /\ i + 1 <= Len(s)
         THEN <<(IF s[i + 1] = "n" THEN "\n"
                 ELSE IF s[i + 1] = "t" THEN "\t"
                 ELSE IF s[i + 1] = "r" THEN "\r"
                 ELSE s[i + 1])>>      \* the other cases all write the escaped char
              \o interpretStringFrom(s, i + 2)
         ELSE <<s[i]>> \o interpretStringFrom(s, i + 1)

\* interpretString
interpretString(s) == IF Len(s) < 2 THEN <<>> ELSE interpretStringFrom(RemoveQuotes(s), 1)

\* A diagnostic of rawstring: at the literal, citing the escape count.
RawStringDiag(pos, escapeCount) ==
    [analyzer |-> "attgo_raw_string", pos |-> pos, count |-> escapeCount]

\* checkStringLiteral with the threshold test off by one
checkStringLiteralAboveThreshold(value, pos) ==
    IF ~HasPrefix(value, <<Quote>>) THEN <<>>
    ELSE IF ContainsChar(interpretString(value), Backtick) THEN <<>>
    ELSE IF countEscapes(value) > minEscapesForWarning
         THEN <<RawStringDiag(pos, countEscapes(value))>>
         ELSE <<>>

\* checkStringLiteral
checkStringLiteral(value, pos) ==
    IF ~HasPrefix(value, <<Quote>>) THEN <<>>                       \* already a raw string
    ELSE IF ContainsChar(interpretString(value), Backtick) THEN <<>>
    ELSE LET escapeCount == countEscapes(value)
         IN  IF escapeCount >= minEscapesForWarning
             THEN <<RawStringDiag(pos, escapeCount)>>
             ELSE <<>>

\* lit.Value: the source text of the literal, quotes included.
LitValue(n) == <<n.quote>> \o Flatten(n.elems) \o <<n.quote>>

\* run of rawstring: ast.Inspect calls checkStringLiteral for every BasicLit
\* of kind STRING, in source order.
RECURSIVE rawstringNodes(_, _)
rawstringNodes(nodes, i) ==
    IF i > Len(nodes)
    THEN <<>>
    ELSE (IF nodes[i].node # "BasicLit" \/ nodes[i].kind # "STRING"
          THEN <<>>
          ELSE checkStringLiteral(LitValue(nodes[i]), i)) \o rawstringNodes(nodes, i + 1)

rawstringRun(p) == rawstringNodes(p.nodes, 1)

\* The lexical elements of an interpreted string literal, as the Go scanner
\* accepts them: a plain character, a backtick, and the escapes \\, \", \n
\* and \x60 (the backtick, written as a hexadecimal byte).
PlainChar == <<"a">>
BacktickChar == <<Backtick>>
EscBackslash == <<Backslash, Backslash>>
EscQuote == <<Backslash, Quote>>
EscNewline == <<Backslash, "n">>
EscHexBacktick == <<Backslash, "x", "6", "0">>
StringElems == {PlainChar, BacktickChar, EscBackslash, EscQuote, EscNewline, EscHexBacktick}
\* The characters of a raw string literal: anything but a backtick.
RawElems == {PlainChar, <<Backslash>>, <<Quote>>}

MaxElems == 6

\* A string literal node, by the quote character and the elements it is
\* written with.
InterpretedLits(maxElems) ==
    {[node |-> "BasicLit", kind |-> "STRING", quote |-> Quote, elems |-> es] :
        es \in SeqsUpTo(StringElems, maxElems)}
RawLits(maxElems) ==
    {[node |-> "BasicLit", kind |-> "STRING", quote |-> Backtick, elems |-> es] :
        es \in SeqsUpTo(RawElems, maxElems)}
OtherNodes ==
    {[node |-> "BasicLit", kind |-> "INT", quote |-> "", elems |-> << <<"6", "0">> >>],
     [node |-> "Ident", kind |-> "", quote |-> "", elems |-> << <<"a">> >>]}

RawStringPasses(maxElems) ==
    [nodes : {<<n>> : n \in InterpretedLits(maxElems) \cup RawLits(maxElems) \cup OtherNodes}]

InitRawString ==
    /\ analyzer = "attgo_raw_string"
    /\ pc = "start"
    /\ pass \in RawStringPasses(MaxElems)
    /\ diagnostics = <<>>
    /\ ret = FALSE

RunRawString ==
    /\ analyzer = "attgo_raw_string"
    /\ pc = "start"
    /\ diagnostics' = rawstringRun(pass)
    /\ pc' = "done"
    /\ ret' = ReturnNil
    /\ UNCHANGED <<analyzer, pass>>

NextRawString == RunRawString

SpecRawString == InitRawString /\ [][NextRawString]_vars

RawStringDone == analyzer = "attgo_raw_string" /\ pc = "done"

IsInterpretedLit(n) == n.node = "BasicLit" /\ n.kind = "STRING" /\ n.quote = Quote
IsRawLit(n) == n.node = "BasicLit" /\ n.kind = "STRING" /\ n.quote = Backtick

\* The string the literal denotes contains a backtick: written literally or
\* as the escape \x60.
DenotesBacktick(n) ==
    \E i \in 1..Len(n.elems) : n.elems[i] \in {BacktickChar, EscHexBacktick}

\* The escapes of the literal other than \n, \t and \r.
EliminableCount(n) ==
    Cardinality({i \in 1..Len(n.elems) : n.elems[i] \in {EscBackslash, EscQuote, EscHexBacktick}})

C7_BacktickNeverFlagged ==
    RawStringDone =>
        \A i \in 1..Len(pass.nodes) :
            (IsInterpretedLit(pass.nodes[i]) /\ DenotesBacktick(pass.nodes[i]))
                => CountAt(diagnostics, i) = 0

-----------------------------------------------------------------------------
(* structfieldorder *)

ChanType(value) == [node |-> "ChanType", value |-> value]
StructType(fields) == [node |-> "StructType", fields |-> fields]
InterfaceType == [node |-> "InterfaceType"]

categoryUnknown == 0
categoryLogger == 1
categoryMetrics == 2
categoryDependency == 3
categoryData == 4
categorySync == 5

\* fieldCategory.String
categoryString(c) ==
    CASE c = categoryLogger -> "logger"
      [] c = categoryMetrics -> "metrics"
      [] c = categoryDependency -> "dependency"
      [] c = categoryData -> "data"
      [] c = categorySync -> "synchronization"
      [] OTHER -> "unknown"

UpperLetters ==
    <<"A","B","C","D","E","F","G","H","I","J","K","L","M",
      "N","O","P","Q","R","S","T","U","V","W","X","Y","Z">>
LowerLetters ==
    <<"a","b","c","d","e","f","g","h","i","j","k","l","m",
      "n","o","p","q","r","s","t","u","v","w","x","y","z">>

\* strings.ToLower
ToLower(s) ==
    [k \in 1..Len(s) |->
        IF \E u \in 1..26 : UpperLetters[u] = s[k]
        THEN LowerLetters[CHOOSE u \in 1..26 : UpperLetters[u] = s[k]]
        ELSE s[k]]

\* Field-name words the classifier looks for.
wLog == <<"l","o","g">>
wLogger == <<"l","o","g","g","e","r">>
wMetrics == <<"m","e","t","r","i","c","s">>
wMonitor == <<"m","o","n","i","t","o","r">>
wMu == <<"m","u">>
wMutex == <<"m","u","t","e","x">>
wLock == <<"l","o","c","k">>
wWg == <<"w","g">>
wClient == <<"c","l","i","e","n","t">>
wService == <<"s","e","r","v","i","c","e">>
wProvider == <<"p","r","o","v","i","d","e","r">>
wHandler == <<"h","a","n","d","l","e","r">>
wDb == <<"d","b">>
wDatabase == <<"d","a","t","a","b","a","s","e">>
wStore == <<"s","t","o","r","e">>
wCache == <<"c","a","c","h","e">>
wRepo == <<"r","e","p","o">>
wRepository == <<"r","e","p","o","s","i","t","o","r","y">>

\* isSyncType: the type is one of the sync package's primitives.
isSyncType(typ) ==
    /\ typ.node = "SelectorExpr"
    /\ typ.x.node = "Ident"
    /\ typ.x.name = "sync"
    /\ typ.sel.name \in {"Mutex", "RWMutex", "WaitGroup", "Once", "Cond", "Pool", "Map"}

\* categorizeField: the name tests for logger and metrics come first, then
\* the type test for sync, the name test for sync, the channel test, the
\* name test for dependency, and data by default.
categorizeField(name, typ) ==
    LET lowerName == ToLower(name) IN
    IF \/ lowerName = wLog \/ lowerName = wLogger
       \/ HasSuffix(lowerName, wLog) \/ HasSuffix(lowerName, wLogger)
    THEN categoryLogger
    ELSE IF \/ lowerName = wMetrics \/ lowerName = wMonitor
            \/ HasSuffix(lowerName, wMetrics)
    THEN categoryMetrics
    ELSE IF isSyncType(typ)
    THEN categorySync
    ELSE IF \/ lowerName = wMu \/ lowerName = wMutex \/ lowerName = wLock
            \/ lowerName = wWg \/ HasSuffix(lowerName, wMu)
            \/ HasSuffix(lowerName, wLock) \/ HasSuffix(lowerName, wMutex)
    THEN categorySync
    ELSE IF typ.node = "ChanType"
    THEN categorySync
    ELSE IF \/ HasSuffix(lowerName, wClient) \/ HasSuffix(lowerName, wService)
            \/ HasSuffix(lowerName, wProvider) \/ HasSuffix(lowerName, wHandler)
            \/ lowerName = wDb \/ lowerName = wDatabase \/ lowerName = wStore
            \/ lowerName = wCache \/ lowerName = wRepo \/ lowerName = wRepository
    THEN categoryDependency
    ELSE categoryData

\* pass.Reportf(name.Pos(), "field %q (%s) should come before %q (%s) in struct %q", ...)
FieldOrderDiag(pos, name, cat, lastCategoryField, lastCategory, structName) ==
    [analyzer |-> "attgo_struct_field_order", pos |-> pos, field |-> name,
     cat |-> categoryString(cat), before |-> lastCategoryField,
     beforeCat |-> categoryString(lastCategory), struct |-> structName]

\* Mutant of outOfOrder: a field of the same category is out of order too.
outOfOrderOrEqual(cat, lastCategory) == cat <= lastCategory

\* if cat < lastCategory
outOfOrder(cat, lastCategory) == cat < lastCategory

\* Mutant of nextLast: remember the highest category seen so far and the
\* field that had it.
nextLastHighest(cat, name, lastCategory, lastCategoryField) ==
    IF cat > lastCategory THEN <<cat, name>> ELSE <<lastCategory, lastCategoryField>>

\* Mutant of nextLast: a flagged field does not become the reference.
nextLastUnlessFlagged(cat, name, lastCategory, lastCategoryField) ==
    IF cat < lastCategory THEN <<lastCategory, lastCategoryField>> ELSE <<cat, name>>

\* lastCategory = cat; lastCategoryField = name.Name
nextLast(cat, name, lastCategory, lastCategoryField) == <<cat, name>>

\* The two loops of checkStructFieldOrder, from name j of field i on, with
\* the loop-carried lastCategory and lastCategoryField; at is the position
\* of the struct in the file.
RECURSIVE fieldLoop(_, _, _, _, _, _, _)
fieldLoop(at, structName, list, i, j, lastCategory, lastCategoryField) ==
    IF i > Len(list) THEN <<>>
    ELSE IF j > Len(list[i].names)
    THEN fieldLoop(at, structName, list, i + 1, 1, lastCategory, lastCategoryField)
    ELSE
        LET name == list[i].names[j]
            cat == categorizeField(name, list[i].type)
        IN  IF cat = categoryUnknown
            THEN fieldLoop(at, structName, list, i, j + 1, lastCategory, lastCategoryField)
            ELSE (IF outOfOrder(cat, lastCategory)
                  THEN <<FieldOrderDiag(<<at, i, j>>, name, cat,
                                        lastCategoryField, lastCategory, structName)>>
                  ELSE <<>>)
                 \o fieldLoop(at, structName, list, i, j + 1,
                              nextLast(cat, name, lastCategory, lastCategoryField)[1],
                              nextLast(cat, name, lastCategory, lastCategoryField)[2])

checkStructFieldOrder(at, structName, st) ==
    IF Len(st.fields) = 0 THEN <<>>
    ELSE fieldLoop(at, structName, st.fields, 1, 1, categoryUnknown, <<>>)

\* run: every type spec of the file whose type is a struct type.
RECURSIVE fieldOrderSpecs(_, _)
fieldOrderSpecs(specs, k) ==
    IF k > Len(specs) THEN <<>>
    ELSE (IF specs[k].type.node = "StructType"
          THEN checkStructFieldOrder(k, specs[k].name, specs[k].type)
          ELSE <<>>)
         \o fieldOrderSpecs(specs, k + 1)

structfieldorderRun(p) == fieldOrderSpecs(p.specs, 1)

\* Field names of the fixtures, and some that put the name tests and the
\* type tests at odds.
nLog == <<"l","o","g">>
nLogger == <<"L","o","g","g","e","r">>
nEventLog == <<"e","v","e","n","t","L","o","g">>
nMetrics == <<"m","e","t","r","i","c","s">>
nMonitor == <<"m","o","n","i","t","o","r">>
nClient == <<"c","l","i","e","n","t">>
nDb == <<"d","b">>
nConfig == <<"c","o","n","f","i","g">>
nGuard == <<"g","u","a","r","d">>
nMu == <<"m","u">>
nDone == <<"d","o","n","e">>

\* Field types: interface{}, sync.Mutex, sync.Locker (no primitive of the
\* analyzer's list), chan struct{}.
AnyType == InterfaceType
SyncMutex == SelectorExpr(Ident("sync"), Ident("Mutex"))
SyncLocker == SelectorExpr(Ident("sync"), Ident("Locker"))
ChanOfStruct == ChanType(StructType(<<>>))

Field(names, type) == [names |-> names, type |-> type]

\* The fields a struct of the model is made of: named fields of each
\* category, an embedded field, and one field declaring two names.
StructFields ==
    { Field(<<nLog>>, AnyType),
      Field(<<nLogger>>, AnyType),
      Field(<<nEventLog>>, SyncMutex),
      Field(<<nMetrics>>, AnyType),
      Field(<<nMonitor>>, ChanOfStruct),
      Field(<<nClient>>, AnyType),
      Field(<<nDb>>, AnyType),
      Field(<<nConfig>>, AnyType),
      Field(<<nGuard>>, SyncLocker),
      Field(<<nMu>>, SyncMutex),
      Field(<<nDone>>, ChanOfStruct),
      Field(<<>>, SyncMutex),
      Field(<<nConfig, nLog>>, AnyType) }

MaxFields == 3

TypeSpec(name, type) == [node |-> "TypeSpec", name |-> name, type |-> type]

\* The fixture struct BadService { mu sync.Mutex; log, config, metrics
\* interface{} }.
BadService ==
    TypeSpec("BadService", StructType(
        <<Field(<<nMu>>, SyncMutex), Field(<<nLog>>, AnyType),
          Field(<<nConfig>>, AnyType), Field(<<nMetrics>>, AnyType)>>))

\* A file declares one struct type, alone or after an interface type, or
\* the fixture.
FieldOrderPasses(maxFields) ==
    [specs :
        {<<TypeSpec("Service", StructType(list))>> : list \in SeqsUpTo(StructFields, maxFields)}
        \cup {<<BadService>>}
        \cup {<<TypeSpec("Reader", InterfaceType)>>}
        \cup {<<TypeSpec("Reader", InterfaceType), TypeSpec("Service", StructType(list))>> :
                list \in SeqsUpTo(StructFields, 1)}]

InitFieldOrder ==
    /\ analyzer = "attgo_struct_field_order"
    /\ pc = "start"
    /\ pass \in FieldOrderPasses(MaxFields)
    /\ diagnostics = <<>>
    /\ ret = FALSE

RunStructFieldOrder ==
    /\ analyzer = "attgo_struct_field_order"
    /\ pc = "start"
    /\ diagnostics' = structfieldorderRun(pass)
    /\ pc' = "done"
    /\ ret' = ReturnNil
    /\ UNCHANGED <<analyzer, pass>>

NextFieldOrder == RunStructFieldOrder

SpecFieldOrder == InitFieldOrder /\ [][NextFieldOrder]_vars

FieldOrderDone == analyzer = "attgo_struct_field_order" /\ pc = "done"

\* The named fields of a struct in declared order, one entry per name.
NamedFields(at, st) ==
    Flatten([i \in 1..Len(st.fields) |->
        [j \in 1..Len(st.fields[i].names) |->
            [pos |-> <<at, i, j>>, name |-> st.fields[i].names[j],
             cat |-> categorizeField(st.fields[i].names[j], st.fields[i].type)]]])

StructSpecs == {k \in 1..Len(pass.specs) : pass.specs[k].type.node = "StructType"}

NonDecreasing(nf) == \A n \in 2..Len(nf) : nf[n - 1].cat <= nf[n].cat

\* C9: a struct whose named fields appear in non-decreasing category rank
\* yields zero diagnostics; so do a struct with no fields, one with only
\* embedded fields, and one whose fields are of a single category.
C9_OrderedStructClean ==
    FieldOrderDone =>
        \A k \in StructSpecs :
            NonDecreasing(NamedFields(k, pass.specs[k].type))
                => \A d \in 1..Len(diagnostics) : diagnostics[d].pos[1] # k

\* C9 witness: struct { log; client; mu sync.Mutex }, three categories in
\* rank order, has been analysed with no diagnostic.
C9_Witness ==
    /\ FieldOrderDone
    /\ pass.specs = <<TypeSpec("Service", StructType(
            <<Field(<<nLog>>, AnyType), Field(<<nClient>>, AnyType), Field(<<nMu>>, SyncMutex)>>))>>
    /\ diagnostics = <<>>

\* The type is a sync-package primitive or a channel type.
IsSyncPrimitiveOrChan(typ) ==
    \/ /\ typ.node = "SelectorExpr"
       /\ typ.x = Ident("sync")
       /\ typ.sel.name \in {"Mutex", "RWMutex", "WaitGroup", "Once", "Cond", "Pool", "Map"}
    \/ typ.node = "ChanType"

\* C10: a named field whose type is a sync-package primitive or a channel
\* type is classified as synchronization whatever its name, names that equal
\* or end with log, logger, metrics or monitor included.
C10_SyncTypeAlwaysSync ==
    FieldOrderDone =>
        \A k \in StructSpecs :
            \A i \in 1..Len(pass.specs[k].type.fields) :
                LET f == pass.specs[k].type.fields[i] IN
                IsSyncPrimitiveOrChan(f.type) =>
                    \A j \in 1..Len(f.names) :
                        categorizeField(f.names[j], f.type) = categorySync

-----------------------------------------------------------------------------
(* capitalcomment *)

Space == " "
Newline == "\n"
Tab == "\t"

\* unicode.IsSpace, over the characters of the model
IsSpace(c) == c \in {Space, Newline, Tab}

\* unicode.IsPunct: the ASCII characters of the categories P*; the symbols
\* $ + < = > ^ | ~ are not punctuation.
IsPunct(c) ==
    c \in {"!", "\"", "#", "%", "&", "'", "(", ")", "*", ",", "-", ".", "/",
           ":", ";", "?", "@", "[", "\\", "]", "_", "{", "}"}

\* unicode.IsDigit
IsDigit(c) == c \in {"0", "1", "2", "3", "4", "5", "6", "7", "8", "9"}

\* unicode.IsLower
IsLower(c) == \E u \in 1..26 : LowerLetters[u] = c

\* unicode.IsUpper
IsUpper(c) == \E u \in 1..26 : UpperLetters[u] = c

\* strings.Contains
Contains(s, substr) ==
    \E i \in 1..(Len(s) + 1) :
        /\ i + Len(substr) - 1 <= Len(s)
        /\ SubSeq(s, i, i + Len(substr) - 1) = substr

\* strings.TrimSpace
TrimSpace(s) ==
    LET inner == {i \in 1..Len(s) : ~IsSpace(s[i])} IN
    IF inner = {} THEN <<>>
    ELSE SubSeq(s, CHOOSE i \in inner : \A k \in inner : i <= k,
                   CHOOSE i \in inner : \A k \in inner : i >= k)

\* strings.Fields: the maximal runs of non-space characters, in order.
RECURSIVE Fields(_)
Fields(s) ==
    IF s = <<>> THEN <<>>
    ELSE IF IsSpace(s[1]) THEN Fields(Tail(s))
    ELSE LET stops == {i \in 1..Len(s) : IsSpace(s[i])}
             end == IF stops = {} THEN Len(s) + 1
                    ELSE CHOOSE i \in stops : \A k \in stops : i <= k
         IN  <<SubSeq(s, 1, end - 1)>> \o Fields(SubSeq(s, end, Len(s)))

\* prefixes := []string{"todo", "fixme", "hack", "xxx", "bug"}
skipPrefixes == {<<"t","o","d","o">>, <<"f","i","x","m","e">>, <<"h","a","c","k">>, <<"x","x","x">>, <<"b","u","g">>}

licensePatterns ==
    {<<"y","o","u"," ","m","a","y"," ","n","o","t"," ","u","s","e"," ","t","h","i","s"," ","f","i","l","e">>,
     <<"d","i","s","t","r","i","b","u","t","e","d"," ","u","n","d","e","r"," ","t","h","e"," ","l","i","c","e","n","s","e">>,
     <<"w","i","t","h","o","u","t"," ","w","a","r","r","a","n","t","i","e","s"," ","o","r"," ","c","o","n","d","i","t","i","o","n","s">>,
     <<"l","i","m","i","t","a","t","i","o","n","s"," ","u","n","d","e","r"," ","t","h","e"," ","l","i","c","e","n","s","e">>,
     <<"p","e","r","m","i","s","s","i","o","n"," ","i","s"," ","h","e","r","e","b","y"," ","g","r","a","n","t","e","d">>,
     <<"t","h","e"," ","a","b","o","v","e"," ","c","o","p","y","r","i","g","h","t"," ","n","o","t","i","c","e">>,
     <<"i","n"," ","n","o"," ","e","v","e","n","t"," ","s","h","a","l","l">>,
     <<"a","s"," ","i","s">>}

\* shouldSkip: directives, URLs, build tags and licence boilerplate.
shouldSkip(text) ==
    LET lowerText == ToLower(text) IN
    \/ HasPrefix(lowerText, <<"n","o","l","i","n","t">>)
    \/ \E prefix \in skipPrefixes : HasPrefix(lowerText, prefix)
    \/ Contains(text, <<":","/","/">>)
    \/ HasPrefix(text, <<"+","b","u","i","l","d">>)
    \/ HasPrefix(text, <<"g","o",":">>)
    \/ \E pattern \in licensePatterns : Contains(lowerText, pattern)

\* Mutant of commonEnglishWords: no word is common.
commonEnglishWordsNone == {}

commonEnglishWords ==
    {<<"t","h","i","s">>, <<"t","h","a","t">>, <<"t","h","e","s","e">>, <<"t","h","o","s","e">>,
     <<"i","t">>, <<"i","t","s">>, <<"t","h","e">>, <<"a">>, <<"a","n">>,
     <<"h","e","r","e">>, <<"t","h","e","r","e">>, <<"w","h","e","r","e">>, <<"w","h","e","n">>,
     <<"s","e","e">>, <<"u","s","e">>, <<"s","e","t">>, <<"g","e","t">>,
     <<"a","l","l">>, <<"a","n","y">>, <<"s","o","m","e">>, <<"e","a","c","h">>,
     <<"f","o","r">>, <<"n","o","t">>, <<"b","u","t">>, <<"a","n","d">>, <<"o","r">>}

identifierFollowers ==
    {<<"i","s">>, <<"a","r","e">>, <<"w","a","s">>, <<"w","e","r","e">>, <<"h","a","s">>, <<"h","a","v","e">>, <<"h","a","d">>,
     <<"c","o","n","t","a","i","n","s">>, <<"r","e","t","u","r","n","s">>, <<"h","o","l","d","s">>, <<"s","t","o","r","e","s">>, <<"r","e","p","r","e","s","e","n","t","s">>,
     <<"d","e","f","i","n","e","s">>, <<"i","m","p","l","e","m","e","n","t","s">>, <<"p","r","o","v","i","d","e","s">>, <<"s","p","e","c","i","f","i","e","s">>}

\* Mutant of looksLikeIdentifier: the common-word test is left out.
looksLikeIdentifierNoCommonWords(text) ==
    LET words == Fields(text) IN
    IF Len(words) = 0 THEN FALSE
    ELSE LET firstWord == words[1] IN
         \/ Contains(firstWord, <<"_">>)
         \/ \E i \in 2..Len(firstWord) : IsUpper(firstWord[i])
         \/ Len(words) >= 2 /\ ToLower(words[2]) \in identifierFollowers

\* looksLikeIdentifier: the first word is no common English word and has an
\* underscore, an upper-case letter after its first character, or is
\* followed by a word that describes an identifier.
looksLikeIdentifier(text) ==
    LET words == Fields(text) IN
    IF Len(words) = 0 THEN FALSE
    ELSE LET firstWord == words[1] IN
         IF ToLower(firstWord) \in commonEnglishWords THEN FALSE
         ELSE \/ Contains(firstWord, <<"_">>)
              \/ \E i \in 2..Len(firstWord) : IsUpper(firstWord[i])
              \/ Len(words) >= 2 /\ ToLower(words[2]) \in identifierFollowers

\* pass.Reportf(c.Pos(), "comment should start with a capital letter")
CommentDiag(pos) == [analyzer |-> "attgo_capital_comment", pos |-> pos]

\* The comment's text without its markers and surrounding white space.
commentText(c) ==
    TrimSpace(TrimSuffix(TrimPrefix(TrimPrefix(c, <<"/","/">>), <<"/","*">>), <<"*","/">>))

\* checkComment, for the comment c at position pos
checkComment(c, pos) ==
    LET text == commentText(c) IN
    IF Len(text) = 0 THEN <<>>
    ELSE LET firstRune == text[1] IN
         IF IsPunct(firstRune) \/ IsDigit(firstRune) THEN <<>>
         ELSE IF shouldSkip(text) THEN <<>>
         ELSE IF IsLower(firstRune) /\ ~looksLikeIdentifier(text)
              THEN <<CommentDiag(pos)>>
              ELSE <<>>

\* Every comment of a group checked, in order.
RECURSIVE checkAllComments(_, _, _)
checkAllComments(list, g, k) ==
    IF k > Len(list) THEN <<>>
    ELSE checkComment(list[k], <<g, k>>) \o checkAllComments(list, g, k + 1)

\* Mutant of checkGroup: the continuation comments are checked too.
checkGroupEveryComment(list, g) == checkAllComments(list, g, 1)

\* if len(cg.List) > 0 { checkComment(pass, cg.List[0]) }
checkGroup(list, g) ==
    IF Len(list) > 0 THEN checkComment(list[1], <<g, 1>>) ELSE <<>>

\* for _, cg := range file.Comments
RECURSIVE capitalcommentGroups(_, _)
capitalcommentGroups(comments, g) ==
    IF g > Len(comments) THEN <<>>
    ELSE checkGroup(comments[g], g) \o capitalcommentGroups(comments, g + 1)

capitalcommentRun(p) == capitalcommentGroups(p.comments, 1)

\* First words of the comments of the model: common words, identifiers,
\* plain words, and words the exclusion rules look for.
FirstWords ==
    {<<"t","h","i","s">>, <<"s","e","e">>, <<"t","H","e">>, <<"f","o","o">>, <<"s","o","m","e","F","u","n","c">>, <<"m","y","_","v","a","r","i","a","b","l","e">>, <<"F","o","o">>,
     <<"1","2","3">>, <<".",".",".">>, <<"+","b","u","i","l","d">>, <<"T","O","D","O",":">>, <<"n","o","l","i","n","t",":","e","r","r","c","h","e","c","k">>, <<"g","o",":","g","e","n","e","r","a","t","e">>,
     <<"a","s">>}

\* Words that follow the first one.
LaterWords == {<<"i","s">>, <<"f","o","o">>, <<"t","h","e">>, <<"h","t","t","p","s",":","/","/","e","x","a","m","p","l","e",".","c","o","m">>}

MaxWords == 3

\* The words of one comment: a first word and up to MaxWords - 1 others.
WordLists(maxWords) ==
    {<<w>> \o rest : w \in FirstWords, rest \in SeqsUpTo(LaterWords, maxWords - 1)}

\* strings.Join(ws, sep)
RECURSIVE Join(_, _)
Join(ws, sep) ==
    IF Len(ws) = 0 THEN <<>>
    ELSE IF Len(ws) = 1 THEN ws[1]
    ELSE ws[1] \o sep \o Join(Tail(ws), sep)

\* A line comment; a block comment on one line; a block comment whose text
\* starts on the line after the opening marker; a block comment broken
\* after its first word.
LineComment(ws) == <<"/","/"," ">> \o Join(ws, <<Space>>)
BlockComment(ws) == <<"/","*"," ">> \o Join(ws, <<Space>>) \o <<" ","*","/">>
BlockCommentBlankFirstLine(ws) ==
    <<"/","*">> \o <<Newline>> \o Join(ws, <<Space>>) \o <<Newline>> \o <<"*","/">>
BlockCommentBroken(ws) ==
    <<"/","*"," ">> \o ws[1] \o <<Newline>> \o Join(Tail(ws), <<Space>>) \o <<" ","*","/">>

FirstComments(maxWords) ==
    {LineComment(ws) : ws \in WordLists(maxWords)}
    \cup {BlockComment(ws) : ws \in WordLists(maxWords)}
    \cup {BlockCommentBlankFirstLine(ws) : ws \in WordLists(maxWords)}
    \cup {BlockCommentBroken(ws) : ws \in WordLists(maxWords)}

\* A lower-case line that continues the comment before it.
Continuation == <<"/","/"," ","c","o","n","t","i","n","u","e","d"," ","h","e","r","e">>

\* A comment group: one comment, or a line comment and its continuation.
CommentGroups(maxWords) ==
    {<<c>> : c \in FirstComments(maxWords)}
    \cup {<<LineComment(ws), Continuation>> : ws \in WordLists(maxWords)}

\* A file holds no comment, one comment group, or that group after a
\* capitalised or a lower-case one.
CommentPasses(maxWords) ==
    [comments :
        {<<>>}
        \cup {<<g>> : g \in CommentGroups(maxWords)}
        \cup {<<<<LineComment(<<<<"F","o","o">>>>), Continuation>>, g>> : g \in CommentGroups(maxWords)}
        \cup {<<<<LineComment(<<<<"f","o","o">>>>)>>, g>> : g \in CommentGroups(maxWords)}]

InitComment ==
    /\ analyzer = "attgo_capital_comment"
    /\ pc = "start"
    /\ pass \in CommentPasses(MaxWords)
    /\ diagnostics = <<>>
    /\ ret = FALSE

RunCapitalComment ==
    /\ analyzer = "attgo_capital_comment"
    /\ pc = "start"
    /\ diagnostics' = capitalcommentRun(pass)
    /\ pc' = "done"
    /\ ret' = ReturnNil
    /\ UNCHANGED <<analyzer, pass>>

NextComment == RunCapitalComment

SpecComment == InitComment /\ [][NextComment]_vars

CommentDone == analyzer = "attgo_capital_comment" /\ pc = "done"

\* The first line of a comment, without the opening marker, the closing
\* marker and surrounding blanks.
FirstLine(c) ==
    LET body == SubSeq(c, 3, Len(c))
        breaks == {i \in 1..Len(body) : body[i] = Newline}
        line == IF breaks = {} THEN body
                ELSE SubSeq(body, 1, (CHOOSE i \in breaks : \A k \in breaks : i <= k) - 1)
    IN  TrimSpace(TrimSuffix(TrimSpace(line), <<"*","/">>))

\* The first word of a line: its characters up to the first blank.
FirstWord(line) ==
    LET blanks == {i \in 1..Len(line) : IsSpace(line[i])} IN
    IF blanks = {} THEN line
    ELSE SubSeq(line, 1, (CHOOSE i \in blanks : \A k \in blanks : i <= k) - 1)

\* The line starts with a lower-case letter and its first word is one of
\* the common English words, in any letter case.
StartsWithCommonWord(line) ==
    /\ Len(line) > 0
    /\ IsLower(line[1])
    /\ ToLower(FirstWord(line)) \in
        {<<"t","h","i","s">>, <<"t","h","a","t">>, <<"t","h","e","s","e">>, <<"t","h","o","s","e">>, <<"i","t">>, <<"i","t","s">>, <<"t","h","e">>, <<"a">>,
         <<"a","n">>, <<"h","e","r","e">>, <<"t","h","e","r","e">>, <<"w","h","e","r","e">>, <<"w","h","e","n">>, <<"s","e","e">>, <<"u","s","e">>, <<"s","e","t">>,
         <<"g","e","t">>, <<"a","l","l">>, <<"a","n","y">>, <<"s","o","m","e">>, <<"e","a","c","h">>, <<"f","o","r">>, <<"n","o","t">>, <<"b","u","t">>,
         <<"a","n","d">>, <<"o","r">>}

Flagged(g) == CountAt(diagnostics, <<g, 1>>) >= 1

\* C11 as stated: a first line that begins with a lower-case letter is not
\* flagged when its first word is a common function word.
C11_AsStated ==
    CommentDone =>
        \A g \in 1..Len(pass.comments) :
            StartsWithCommonWord(FirstLine(pass.comments[g][1])) => ~Flagged(g)

\* C11: a first line that begins with a lower-case letter and whose first
\* word is a common function word (this, that, the, a, see, use, ...) is
\* never exempted as an identifier: it is flagged exactly once, unless the
\* comment is excluded as a directive, a URL, a build tag or licence text.
C11_CommonWordIsFlagged ==
    CommentDone =>
        \A g \in 1..Len(pass.comments) :
            LET c == pass.comments[g][1] IN
            StartsWithCommonWord(FirstLine(c)) =>
                IF shouldSkip(commentText(c))
                THEN CountAt(diagnostics, <<g, 1>>) = 0
                ELSE CountAt(diagnostics, <<g, 1>>) = 1

\* C11 witness: "// see foo" has been checked and flagged.
C11_Witness ==
    /\ CommentDone
    /\ pass.comments = <<<<LineComment(<<<<"s","e","e">>, <<"f","o","o">>>>)>>>>
    /\ diagnostics = <<CommentDiag(<<1, 1>>)>>

\* The second word of the line is one of the verbs that describe an
\* identifier.
FollowedByVerb(line) ==
    /\ Len(Fields(line)) >= 2
    /\ ToLower(Fields(line)[2]) \in
        {<<"i","s">>, <<"a","r","e">>, <<"w","a","s">>, <<"w","e","r","e">>, <<"h","a","s">>, <<"h","a","v","e">>, <<"h","a","d">>, <<"c","o","n","t","a","i","n","s">>,
         <<"r","e","t","u","r","n","s">>, <<"h","o","l","d","s">>, <<"s","t","o","r","e","s">>, <<"r","e","p","r","e","s","e","n","t","s">>, <<"d","e","f","i","n","e","s">>,
         <<"i","m","p","l","e","m","e","n","t","s">>, <<"p","r","o","v","i","d","e","s">>, <<"s","p","e","c","i","f","i","e","s">>}

\* The first word has an underscore or an upper-case letter after its
\* first character.
IdentifierShaped(word) ==
    \/ \E i \in 1..Len(word) : word[i] = "_"
    \/ \E i \in 2..Len(word) : IsUpper(word[i])

\* C12: a first line that starts with a lower-case letter, is not excluded
\* by the punctuation/digit, directive, URL, build-tag or licence rules and
\* whose first word is a common English word is flagged, also when its
\* second word is a descriptive verb such as "is"; a line whose first word
\* is shaped like an identifier (someFunc, my_variable) is not.
C12_CommonWordThenVerb ==
    CommentDone =>
        \A g \in 1..Len(pass.comments) :
            LET c == pass.comments[g][1]
                line == FirstLine(c)
            IN  /\ (/\ StartsWithCommonWord(line)
                    /\ ~shouldSkip(commentText(c))) => Flagged(g)
                /\ (/\ Len(line) > 0
                    /\ IsLower(line[1])
                    /\ ~StartsWithCommonWord(line)
                    /\ IdentifierShaped(FirstWord(line))) => ~Flagged(g)

\* C12 witness: "// this is foo" has been checked and flagged.
C12_Witness ==
    /\ CommentDone
    /\ pass.comments = <<<<LineComment(<<<<"t","h","i","s">>, <<"i","s">>, <<"f","o","o">>>>)>>>>
    /\ Flagged(1)
    /\ FollowedByVerb(FirstLine(pass.comments[1][1]))

\* C13 as stated: only the first line of each comment group is inspected; a
\* lower-case second or later line never produces a diagnostic, there are
\* at most as many diagnostics as groups, and a first line that starts with
\* an upper-case letter, punctuation or a digit is never flagged.
C13_AsStated ==
    CommentDone =>
        /\ Len(diagnostics) <= Len(pass.comments)
        /\ \A d \in 1..Len(diagnostics) :
            /\ diagnostics[d].pos[2] = 1
            /\ LET line == FirstLine(pass.comments[diagnostics[d].pos[1]][1]) IN
               Len(line) > 0 /\ IsLower(line[1])

\* C13: only the first comment of each comment group is inspected, from its
\* first non-blank character: a second or later comment of a group never
\* produces a diagnostic, each group gets at most one, and a first comment
\* whose text starts with an upper-case letter, punctuation or a digit is
\* never flagged. A block comment whose first line is blank is judged by
\* its first non-blank line.
C13_FirstCommentOnly ==
    CommentDone =>
        /\ Len(diagnostics) <= Len(pass.comments)
        /\ \A d \in 1..Len(diagnostics) :
            /\ diagnostics[d].pos[2] = 1
            /\ diagnostics[d].pos[1] \in 1..Len(pass.comments)
            /\ CountAt(diagnostics, diagnostics[d].pos) = 1
        /\ \A g \in 1..Len(pass.comments) :
            LET text == commentText(pass.comments[g][1]) IN
            (Len(text) = 0 \/ IsUpper(text[1]) \/ IsPunct(text[1]) \/ IsDigit(text[1]))
                => ~Flagged(g)
        /\ \A g \in 1..Len(pass.comments) :
            LET text == commentText(pass.comments[g][1]) IN
            Flagged(g) => (Len(text) > 0 /\ IsLower(text[1]))

\* C13 witness: a capitalised comment with a lower-case continuation gets
\* no diagnostic, and the block comment after it, whose first line is blank
\* and whose second line is lower-case, gets one.
C13_Witness ==
    /\ CommentDone
    /\ pass.comments = << <<LineComment(<<<<"F","o","o">>>>), Continuation>>,
                          <<BlockCommentBlankFirstLine(<<<<"f","o","o">>, <<"t","h","e">>>>)>> >>
    /\ diagnostics = <<CommentDiag(<<2, 1>>)>>

-----------------------------------------------------------------------------
(* funcopts *)

Ellipsis(elt) == [node |-> "Ellipsis", elt |-> elt]
FuncType == [node |-> "FuncType"]
FuncDecl(recv, name, params, results) ==
    [node |-> "FuncDecl", recv |-> recv, name |-> name,
     params |-> params, results |-> results]

serviceTypeSuffixes ==
    {<<"S","e","r","v","i","c","e">>, <<"M","a","n","a","g","e","r">>, <<"H","a","n","d","l","e","r">>, <<"C","o","n","t","r","o","l","l","e","r">>, <<"P","r","o","v","i","d","e","r">>,
     <<"C","l","i","e","n","t">>, <<"S","e","r","v","e","r">>}

\* isServiceTypeName
isServiceTypeName(name) == \E suffix \in serviceTypeSuffixes : HasSuffix(name, suffix)

\* The first loop of run: the names of the struct types with a service name.
serviceTypes(decls) ==
    {decls[d].name : d \in {k \in 1..Len(decls) :
        /\ decls[k].node = "TypeSpec"
        /\ decls[k].type.node = "StructType"
        /\ isServiceTypeName(decls[k].name)}}

\* getReturnTypeName: the name of the first result that is an identifier or
\* a pointer to an identifier; "" when there is none.
RECURSIVE getReturnTypeNameFrom(_, _)
getReturnTypeNameFrom(results, i) ==
    IF i > Len(results) THEN <<>>
    ELSE LET t == results[i] IN
         IF t.node = "StarExpr" /\ t.x.node = "Ident" THEN t.x.name
         ELSE IF t.node = "Ident" THEN t.name
         ELSE getReturnTypeNameFrom(results, i + 1)

getReturnTypeName(fn) == getReturnTypeNameFrom(fn.results, 1)

\* isContextParam
isContextParam(param) ==
    /\ param.type.node = "SelectorExpr"
    /\ param.type.x.node = "Ident"
    /\ param.type.x.name = "context"
    /\ param.type.sel.name = "Context"

\* isOptionsParam
isOptionsParam(param) ==
    /\ param.type.node = "Ellipsis"
    /\ \/ /\ param.type.elt.node = "Ident"
          /\ \/ HasSuffix(param.type.elt.name, <<"O","p","t","i","o","n">>)
             \/ HasSuffix(param.type.elt.name, <<"O","p","t">>)
       \/ param.type.elt.node = "FuncType"

\* The loop of shouldSuggestFuncOpts from parameter i on, with the count so
\* far; the early "return false" yields 0, which is not above the threshold.
RECURSIVE countParams(_, _, _)
countParams(params, i, nonContextParams) ==
    IF i > Len(params) THEN nonContextParams
    ELSE IF isContextParam(params[i])
    THEN countParams(params, i + 1, nonContextParams)
    ELSE IF isOptionsParam(params[i]) THEN 0
    ELSE countParams(params, i + 1,
            nonContextParams + (IF Len(params[i].names) = 0 THEN 1 ELSE Len(params[i].names)))

\* shouldSuggestFuncOpts
shouldSuggestFuncOpts(fn) == countParams(fn.params, 1, 0) > 3

\* pass.Reportf(funcDecl.Name.Pos(), "constructor %q has many parameters; ...", name)
FuncOptsDiag(pos, name) == [analyzer |-> "attgo_func_opts", pos |-> pos, name |-> name]

\* The second loop of run, from declaration d on.
RECURSIVE funcoptsDecls(_, _, _)
funcoptsDecls(decls, types, d) ==
    IF d > Len(decls) THEN <<>>
    ELSE (IF /\ decls[d].node = "FuncDecl"
             /\ decls[d].recv = NoExpr
             /\ (HasPrefix(decls[d].name, <<"N","e","w">>) \/ HasPrefix(decls[d].name, <<"C","r","e","a","t","e">>))
             /\ getReturnTypeName(decls[d]) # <<>>
             /\ getReturnTypeName(decls[d]) \in types
             /\ shouldSuggestFuncOpts(decls[d])
          THEN <<FuncOptsDiag(d, decls[d].name)>>
          ELSE <<>>)
         \o funcoptsDecls(decls, types, d + 1)

funcoptsRun(p) == funcoptsDecls(p.decls, serviceTypes(p.decls), 1)

UserService == <<"U","s","e","r","S","e","r","v","i","c","e">>
Helper == <<"H","e","l","p","e","r">>

ContextContext == SelectorExpr(Ident("context"), Ident("Context"))

\* Parameters that declare names: one name, two names sharing a type, a
\* context.
NamedParams ==
    {Field(<<"db">>, AnyType), Field(<<"cache", "logger">>, AnyType),
     Field(<<"ctx">>, ContextContext)}

\* Parameters without a name.
UnnamedParams == {Field(<<>>, AnyType), Field(<<>>, ContextContext)}

\* The final variadic parameter, if any: ...Option, ...func(*T), and
\* ...interface{}, which is no options parameter.
VariadicParams ==
    {<<>>,
     <<Field(<<"opts">>, Ellipsis(Ident(<<"O","p","t","i","o","n">>)))>>,
     <<Field(<<"opts">>, Ellipsis(FuncType))>>,
     <<Field(<<"args">>, Ellipsis(AnyType))>>}

MaxParams == 3

\* A parameter list names all of its parameters or none, and only its last
\* parameter may be variadic.
ParamLists(maxParams) ==
    {ps \o v : ps \in SeqsUpTo(NamedParams, maxParams), v \in VariadicParams}
    \cup {ps : ps \in SeqsUpTo(UnnamedParams, maxParams)}

\* Result lists: none, T, *T, a pointer to a struct that is no service,
\* (*T, error), (error, *T), ([]T, *T), and a pointer to an imported type.
ResultLists ==
    {<<>>,
     <<Ident(UserService)>>,
     <<StarExpr(Ident(UserService))>>,
     <<StarExpr(Ident(Helper))>>,
     <<StarExpr(Ident(UserService)), Ident(<<"e","r","r","o","r">>)>>,
     <<Ident(<<"e","r","r","o","r">>), StarExpr(Ident(UserService))>>,
     <<ArrayType(Ident(UserService)), StarExpr(Ident(UserService))>>,
     <<StarExpr(SelectorExpr(Ident("pkg"), Ident(UserService)))>>}

FuncNames == {<<"N","e","w","U","s","e","r","S","e","r","v","i","c","e">>, <<"C","r","e","a","t","e","U","s","e","r","S","e","r","v","i","c","e">>, <<"P","r","o","c","e","s","s","D","a","t","a">>}

\* The receiver of a method, NoExpr for a function.
Receivers == {NoExpr, StarExpr(Ident(UserService))}

FuncDecls(maxParams) ==
    {FuncDecl(recv, name, params, results) :
        recv \in Receivers, name \in FuncNames,
        params \in ParamLists(maxParams), results \in ResultLists}

\* The unit declares Helper and UserService, the latter as a struct or as
\* an interface, and one function, before or after the types.
FuncOptsPasses(maxParams) ==
    [decls :
        {<<TypeSpec(Helper, StructType(<<>>)), TypeSpec(UserService, t), fn>> :
            t \in {StructType(<<>>), InterfaceType}, fn \in FuncDecls(maxParams)}
        \cup {<<fn, TypeSpec(UserService, StructType(<<>>))>> : fn \in FuncDecls(maxParams)}]

InitFuncOpts ==
    /\ analyzer = "attgo_func_opts"
    /\ pc = "start"
    /\ pass \in FuncOptsPasses(MaxParams)
    /\ diagnostics = <<>>
    /\ ret = FALSE

RunFuncOpts ==
    /\ analyzer = "attgo_func_opts"
    /\ pc = "start"
    /\ diagnostics' = funcoptsRun(pass)
    /\ pc' = "done"
    /\ ret' = ReturnNil
    /\ UNCHANGED <<analyzer, pass>>

NextFuncOpts == RunFuncOpts

SpecFuncOpts == InitFuncOpts /\ [][NextFuncOpts]_vars

FuncOptsDone == analyzer = "attgo_func_opts" /\ pc = "done"

\* The names of the structs declared in the unit that end with a service
\* suffix.
ServiceStructs ==
    {pass.decls[d].name : d \in {k \in 1..Len(pass.decls) :
        /\ pass.decls[k].node = "TypeSpec"
        /\ pass.decls[k].type.node = "StructType"
        /\ \E suffix \in {<<"S","e","r","v","i","c","e">>, <<"M","a","n","a","g","e","r">>, <<"H","a","n","d","l","e","r">>, <<"C","o","n","t","r","o","l","l","e","r">>,
                          <<"P","r","o","v","i","d","e","r">>, <<"C","l","i","e","n","t">>, <<"S","e","r","v","e","r">>} :
                HasSuffix(pass.decls[k].name, suffix)}}

\* The function returns T or *T for a service struct T.
ReturnsService(fn) ==
    \E i \in 1..Len(fn.results) :
        \/ fn.results[i].node = "Ident" /\ fn.results[i].name \in ServiceStructs
        \/ /\ fn.results[i].node = "StarExpr"
           /\ fn.results[i].x.node = "Ident"
           /\ fn.results[i].x.name \in ServiceStructs

\* The function has a variadic options parameter.
HasOptionsParam(fn) ==
    \E i \in 1..Len(fn.params) :
        /\ fn.params[i].type.node = "Ellipsis"
        /\ \/ fn.params[i].type.elt.node = "FuncType"
           \/ /\ fn.params[i].type.elt.node = "Ident"
              /\ \/ HasSuffix(fn.params[i].type.elt.name, <<"O","p","t","i","o","n">>)
                 \/ HasSuffix(fn.params[i].type.elt.name, <<"O","p","t">>)

\* The number of parameters that are no context.Context: one per declared
\* name, one for an unnamed parameter.
RECURSIVE NonContextCount(_)
NonContextCount(params) ==
    IF params = <<>> THEN 0
    ELSE (IF Head(params).type = ContextContext THEN 0
          ELSE IF Head(params).names = <<>> THEN 1
          ELSE Len(Head(params).names))
         + NonContextCount(Tail(params))

\* C14: a function is flagged if and only if it has no receiver, its name
\* starts with New or Create, it returns T or *T for a struct T of the unit
\* whose name ends with a service suffix, it has no variadic options
\* parameter, and it has more than 3 non-context parameters, every declared
\* name counting separately.
C14_ConstructorShape ==
    FuncOptsDone =>
        \A d \in 1..Len(pass.decls) :
            pass.decls[d].node = "FuncDecl" =>
                LET fn == pass.decls[d] IN
                (CountAt(diagnostics, d) = 1) <=>
                    /\ fn.recv = NoExpr
                    /\ (HasPrefix(fn.name, <<"N","e","w">>) \/ HasPrefix(fn.name, <<"C","r","e","a","t","e">>))
                    /\ ReturnsService(fn)
                    /\ ~HasOptionsParam(fn)
                    /\ NonContextCount(fn.params) > 3

-----------------------------------------------------------------------------
(* currentyear *)

\* The one-character string that stands for the copyright sign U+00A9.
CopyrightSign == "COPYRIGHTSIGN"

Digits == <<"0", "1", "2", "3", "4", "5", "6", "7", "8", "9">>

\* strconv.Atoi, for a string of decimal digits
RECURSIVE Atoi(_)
Atoi(s) ==
    IF s = <<>> THEN 0
    ELSE 10 * Atoi(SubSeq(s, 1, Len(s) - 1))
         + ((CHOOSE n \in 1..10 : Digits[n] = s[Len(s)]) - 1)

\* \s*: the first position from j on that holds no white space.
SkipSpace(text, j) ==
    LET rest == {k \in j..Len(text) : ~IsSpace(text[k])} IN
    IF rest = {} THEN Len(text) + 1
    ELSE CHOOSE k \in rest : \A m \in rest : k <= m

\* \d{4} at position j
FourDigits(text, j) ==
    /\ j >= 1
    /\ j + 3 <= Len(text)
    /\ \A k \in j..(j + 3) : IsDigit(text[k])

\* Mutant of markerAt: the marker in any letter case.
markerAtAnyCase(text, i) ==
    /\ i + 8 <= Len(text)
    /\ ToLower(SubSeq(text, i, i + 8)) = <<"c","o","p","y","r","i","g","h","t">>

\* [Cc]opyright at position i
markerAt(text, i) ==
    /\ i + 8 <= Len(text)
    /\ text[i] \in {"C", "c"}
    /\ SubSeq(text, i + 1, i + 8) = <<"o","p","y","r","i","g","h","t">>

\* (?:\d{4}\s*-\s*)?(\d{4}) at position j: the submatch, <<>> for no match.
\* The range is preferred; when no year follows the hyphen the year before
\* it is the submatch.
yearAt(text, j) ==
    IF ~FourDigits(text, j) THEN <<>>
    ELSE LET k == SkipSpace(text, j + 4)
             second == IF k <= Len(text) /\ text[k] = "-"
                       THEN SkipSpace(text, k + 1) ELSE 0
         IN  IF second > 0 /\ FourDigits(text, second)
             THEN SubSeq(text, second, second + 3)
             ELSE SubSeq(text, j, j + 3)

\* The pattern anchored at position i: the submatch, <<>> for no match.
matchAt(text, i) ==
    IF ~markerAt(text, i) THEN <<>>
    ELSE LET j == SkipSpace(text, i + 9)
             afterSign ==
                IF j <= Len(text) /\ text[j] = CopyrightSign THEN j + 1
                ELSE IF HasPrefix(SubSeq(text, j, Len(text)), <<"(","c",")">>) THEN j + 3
                ELSE j
         IN  yearAt(text, SkipSpace(text, afterSign))

\* copyrightYearPattern.FindStringSubmatch(text)[1], <<>> when the pattern
\* does not match: the leftmost match counts.
copyrightYear(text) ==
    LET starts == {i \in 1..Len(text) : matchAt(text, i) # <<>>} IN
    IF starts = {} THEN <<>>
    ELSE matchAt(text, CHOOSE i \in starts : \A k \in starts : i <= k)

\* The source text of one line comment of a header: a copyright line made
\* of marker, sign, years and holder, or a line of other text.
LineSource(line) ==
    <<"/", "/", Space>> \o
    (IF line.kind = "copyright"
     THEN line.marker \o line.sign
          \o (IF Len(line.years) = 0 THEN <<>>
              ELSE IF Len(line.years) = 1 THEN line.years[1] \o <<Space>>
              ELSE line.years[1] \o line.dash \o line.years[2] \o <<Space>>)
          \o <<"A", "t", "t", "e", "s", "t", "a", "n", "t">>
     ELSE line.text)

\* cg.List: the comments of a group, as source text.
CommentList(cg) == [k \in 1..Len(cg.lines) |-> LineSource(cg.lines[k])]

\* ast.CommentGroup.Text for a group of line comments: the lines without
\* marker and first blank, each ended by a line break.
RECURSIVE GroupText(_)
GroupText(list) ==
    IF list = <<>> THEN <<>>
    ELSE TrimPrefix(TrimPrefix(Head(list), <<"/","/">>), <<Space>>) \o <<Newline>>
         \o GroupText(Tail(list))

\* pass.Reportf(copyrightComment.Pos(), "copyright year %d is outdated; should be %d ...")
YearDiag(pos, year, currentYear) ==
    [analyzer |-> "attgo_current_year", pos |-> pos, year |-> year,
     expected |-> currentYear]

\* Mutant of outdated: the current year is outdated too.
outdatedOrCurrent(year, currentYear) == year <= currentYear

\* if year < currentYear
outdated(year, currentYear) == year < currentYear

\* checkFile, for file f of the pass
checkFile(file, f, currentYear) ==
    LET before == {g \in 1..Len(file.comments) : file.comments[g].pos < file.package} IN
    IF Len(file.comments) = 0 \/ before = {} THEN <<>>
    ELSE LET copyrightComment == file.comments[CHOOSE g \in before : \A k \in before : g <= k]
             yearStr == copyrightYear(GroupText(CommentList(copyrightComment)))
         IN  IF yearStr = <<>> THEN <<>>
             ELSE IF outdated(Atoi(yearStr), currentYear)
                  THEN <<YearDiag(<<f, copyrightComment.pos>>, Atoi(yearStr), currentYear)>>
                  ELSE <<>>

\* for _, file := range pass.Files
RECURSIVE currentyearFiles(_, _, _)
currentyearFiles(files, f, currentYear) ==
    IF f > Len(files) THEN <<>>
    ELSE checkFile(files[f], f, currentYear)
         \o currentyearFiles(files, f + 1, currentYear)

currentyearRun(p) == currentyearFiles(p.files, 1, p.currentYear)

\* Spellings of the marker and of what stands between it and the year.
Markers == {<<"C","o","p","y","r","i","g","h","t">>, <<"c","o","p","y","r","i","g","h","t">>, <<"C","O","P","Y","R","I","G","H","T">>}
RecognisedSigns == {<<Space>>, <<Space, CopyrightSign, Space>>, <<" ","(","c",")"," ">>}
Signs == RecognisedSigns \cup {<<" ","(","C",")"," ">>}

HeaderYears == {<<"2","0","2","4">>, <<"2","0","2","5">>, <<"2","0","2","6">>}
CurrentYears == {2025, 2026}
Dashes == {<<"-">>, <<" ","-"," ">>}

\* A copyright line with one year, with a range of two, or with none.
CopyrightLines ==
    [kind : {"copyright"}, marker : Markers, sign : Signs,
     years : {<<y>> : y \in HeaderYears}, dash : {<<"-">>}]
    \cup [kind : {"copyright"}, marker : Markers, sign : Signs,
          years : HeaderYears \X HeaderYears, dash : Dashes]
    \cup [kind : {"copyright"}, marker : Markers, sign : Signs,
          years : {<<>>}, dash : {<<"-">>}]

\* Lines of a header that are no copyright line; one holds a year.
TextLines ==
    [kind : {"text"}, text : {<<"L","i","c","e","n","s","e","d"," ","u","n","d","e","r"," ","t","h","e"," ","L","i","c","e","n","s","e">>, <<"S","i","n","c","e"," ","2","0","2","4">>}]

MaxLeadingLines == 1

CommentGroupAt(pos, lines) == [pos |-> pos, lines |-> lines]
File(package, comments) == [package |-> package, comments |-> comments]

\* A header: up to MaxLeadingLines lines of text, then a copyright line.
Headers(maxLeadingLines) ==
    {lead \o <<c>> : lead \in SeqsUpTo(TextLines, maxLeadingLines), c \in CopyrightLines}

\* Source files: the header before the package clause; no comment at all;
\* the copyright comment after the package clause; a group without a
\* copyright line before the header.
YearFiles(maxLeadingLines) ==
    {File(2, <<CommentGroupAt(1, h)>>) : h \in Headers(maxLeadingLines)}
    \cup {File(1, <<>>)}
    \cup {File(1, <<CommentGroupAt(2, <<c>>)>>) : c \in CopyrightLines}
    \cup {File(3, <<CommentGroupAt(1, <<t>>), CommentGroupAt(2, <<c>>)>>) :
            t \in TextLines, c \in CopyrightLines}

\* A file with the header "// Copyright 2024 Attestant".
OldFile ==
    File(2, <<CommentGroupAt(1, <<[kind |-> "copyright", marker |-> <<"C","o","p","y","r","i","g","h","t">>,
                                  sign |-> <<Space>>, years |-> <<<<"2","0","2","4">>>>,
                                  dash |-> <<"-">>]>>)>>)

\* A package of one file, or of a file with a one-line header and OldFile.
YearPasses(maxLeadingLines) ==
    [currentYear : CurrentYears,
     files : {<<f>> : f \in YearFiles(maxLeadingLines)}
             \cup {<<File(2, <<CommentGroupAt(1, <<c>>)>>), OldFile>> : c \in CopyrightLines}]

InitYear ==
    /\ analyzer = "attgo_current_year"
    /\ pc = "start"
    /\ pass \in YearPasses(MaxLeadingLines)
    /\ diagnostics = <<>>
    /\ ret = FALSE

RunCurrentYear ==
    /\ analyzer = "attgo_current_year"
    /\ pc = "start"
    /\ diagnostics' = currentyearRun(pass)
    /\ pc' = "done"
    /\ ret' = ReturnNil
    /\ UNCHANGED <<analyzer, pass>>

NextYear == RunCurrentYear

SpecYear == InitYear /\ [][NextYear]_vars

YearDone == analyzer = "attgo_current_year" /\ pc = "done"

\* The diagnostics of file f, in order.
FileDiags(f) == SelectSeq(diagnostics, LAMBDA d : d.pos[1] = f)

\* The groups of the file that start before the package clause.
GroupsBeforePackage(file) ==
    {g \in 1..Len(file.comments) : file.comments[g].pos < file.package}

\* The first comment group before the package clause.
HeaderGroup(file) ==
    file.comments[CHOOSE g \in GroupsBeforePackage(file) :
                    \A k \in GroupsBeforePackage(file) : g <= k]

\* The copyright lines of a group that carry a year after a marker and an
\* optional sign; the marker spelt as in Spellings.
YearLines(cg, Spellings) ==
    {k \in 1..Len(cg.lines) :
        /\ cg.lines[k].kind = "copyright"
        /\ cg.lines[k].marker \in Spellings
        /\ cg.lines[k].sign \in RecognisedSigns
        /\ Len(cg.lines[k].years) > 0}

\* The year of a copyright line: the second one of a range.
LineYear(line) ==
    LET y == line.years[Len(line.years)] IN
    (CHOOSE n \in 1..10 : Digits[n] = y[1]) * 1000 - 1000
    + (CHOOSE n \in 1..10 : Digits[n] = y[2]) * 100 - 100
    + (CHOOSE n \in 1..10 : Digits[n] = y[3]) * 10 - 10
    + (CHOOSE n \in 1..10 : Digits[n] = y[4]) - 1

\* What is expected of file f when the marker may be spelt as in Spellings:
\* one diagnostic citing the header's year and the current one when that
\* year is earlier than the current one, no diagnostic otherwise.
ExpectedFileDiags(f, Spellings) ==
    LET file == pass.files[f] IN
    IF GroupsBeforePackage(file) = {} THEN <<>>
    ELSE LET cg == HeaderGroup(file)
             ks == YearLines(cg, Spellings)
         IN  IF ks = {} THEN <<>>
             ELSE LET y == LineYear(cg.lines[CHOOSE k \in ks : TRUE]) IN
                  IF y < pass.currentYear
                  THEN <<YearDiag(<<f, cg.pos>>, y, pass.currentYear)>>
                  ELSE <<>>

\* C15: for a unit whose first comment group before the package clause
\* holds a copyright year Y (four digits after the marker Copyright or
\* copyright and an optional sign; the second year of a hyphenated range),
\* exactly one diagnostic citing Y and the current year is emitted if and
\* only if Y is earlier than the current year; an equal or later year, a
\* missing header and a header without such a year give no diagnostic.
C15_CopyrightFreshness ==
    YearDone =>
        \A f \in 1..Len(pass.files) :
            /\ FileDiags(f) = ExpectedFileDiags(f, {<<"C","o","p","y","r","i","g","h","t">>, <<"c","o","p","y","r","i","g","h","t">>})
            /\ Len(FileDiags(f)) <= 1

\* C15 witness: in 2026 the header "Copyright (c) 2024 - 2025" has been
\* flagged with year 2025.
C15_Witness ==
    /\ YearDone
    /\ pass.currentYear = 2026
    /\ Len(pass.files) = 1
    /\ GroupsBeforePackage(pass.files[1]) # {}
    /\ \E k \in 1..Len(HeaderGroup(pass.files[1]).lines) :
        LET line == HeaderGroup(pass.files[1]).lines[k] IN
        /\ line.kind = "copyright"
        /\ line.sign = <<" ","(","c",")"," ">>
        /\ line.years = <<<<"2","0","2","4">>, <<"2","0","2","5">>>>
        /\ line.dash = <<" ","-"," ">>
    /\ Len(diagnostics) = 1
    /\ diagnostics[1].year = 2025
    /\ diagnostics[1].expected = 2026

\* C16 as stated: an outdated year after the marker in any letter case is
\* matched and flagged.
C16_AsStated ==
    YearDone =>
        \A f \in 1..Len(pass.files) :
            FileDiags(f) = ExpectedFileDiags(f, Markers)

\* C16: the marker is recognised when it is spelt Copyright or copyright;
\* only its first letter may be of either case. An outdated year after
\* either spelling is flagged, one after COPYRIGHT is not matched and not
\* flagged.
C16_MarkerSpelling ==
    YearDone =>
        \A f \in 1..Len(pass.files) :
            LET file == pass.files[f] IN
            GroupsBeforePackage(file) # {} =>
                \A k \in YearLines(HeaderGroup(file), Markers) :
                    LET line == HeaderGroup(file).lines[k] IN
                    LineYear(line) < pass.currentYear =>
                        (Len(FileDiags(f)) = 1
                            <=> line.marker \in {<<"C","o","p","y","r","i","g","h","t">>, <<"c","o","p","y","r","i","g","h","t">>})

\* C16 witness: in 2025 the header "COPYRIGHT 2024" has been analysed and
\* not flagged.
C16_Witness ==
    /\ YearDone
    /\ pass.currentYear = 2025
    /\ pass.files = <<File(2, <<CommentGroupAt(1,
            <<[kind |-> "copyright", marker |-> <<"C","O","P","Y","R","I","G","H","T">>, sign |-> <<Space>>,
               years |-> <<<<"2","0","2","4">>>>, dash |-> <<"-">>]>>)>>)>>
    /\ diagnostics = <<>>

-----------------------------------------------------------------------------
(* config.go and plugin.go *)

\* DefaultConfig
DefaultConfig ==
    [EnableNoPkgLogger |-> TRUE,
     EnableEnumIota |-> TRUE,
     EnableCurrentYear |-> TRUE,
     EnableCapitalComment |-> FALSE,
     EnableFuncOpts |-> FALSE,
     EnableRawString |-> FALSE,
     EnableStructFieldOrder |-> FALSE,
     EnableInterfaceCheck |-> FALSE,
     LoggerTypePatterns |->
        <<<<"z","e","r","o","l","o","g",".","L","o","g","g","e","r">>, <<"*","z","e","r","o","l","o","g",".","L","o","g","g","e","r">>,
          <<"z","a","p",".","L","o","g","g","e","r">>, <<"*","z","a","p",".","L","o","g","g","e","r">>,
          <<"z","a","p",".","S","u","g","a","r","e","d","L","o","g","g","e","r">>, <<"*","z","a","p",".","S","u","g","a","r","e","d","L","o","g","g","e","r">>,
          <<"l","o","g","r","u","s",".","L","o","g","g","e","r">>, <<"*","l","o","g","r","u","s",".","L","o","g","g","e","r">>,
          <<"l","o","g","r","u","s",".","E","n","t","r","y">>, <<"*","l","o","g","r","u","s",".","E","n","t","r","y">>,
          <<"s","l","o","g",".","L","o","g","g","e","r">>, <<"*","s","l","o","g",".","L","o","g","g","e","r">>,
          <<"l","o","g",".","L","o","g","g","e","r">>, <<"*","l","o","g",".","L","o","g","g","e","r">>>>,
     EnumTypeSuffixes |-> <<<<"T","y","p","e">>, <<"S","t","a","t","u","s">>, <<"S","t","a","t","e">>, <<"K","i","n","d">>, <<"M","o","d","e">>>>]

\* Mutant of Merge: the user's lists are appended to the defaults.
MergeAppend(c, other) ==
    [c EXCEPT !.LoggerTypePatterns = c.LoggerTypePatterns \o other.LoggerTypePatterns,
              !.EnumTypeSuffixes = c.EnumTypeSuffixes \o other.EnumTypeSuffixes]

\* Mutant of Merge: the enable flags that other sets are set in c as well.
MergeWithFlags(c, other) ==
    IF other = Nil THEN c
    ELSE [c EXCEPT !.EnableNoPkgLogger = @ \/ other.EnableNoPkgLogger,
                   !.EnableEnumIota = @ \/ other.EnableEnumIota,
                   !.EnableCurrentYear = @ \/ other.EnableCurrentYear,
                   !.EnableCapitalComment = @ \/ other.EnableCapitalComment,
                   !.EnableFuncOpts = @ \/ other.EnableFuncOpts,
                   !.EnableRawString = @ \/ other.EnableRawString,
                   !.EnableStructFieldOrder = @ \/ other.EnableStructFieldOrder,
                   !.EnableInterfaceCheck = @ \/ other.EnableInterfaceCheck,
                   !.LoggerTypePatterns =
                        IF Len(other.LoggerTypePatterns) > 0
                        THEN other.LoggerTypePatterns ELSE c.LoggerTypePatterns,
                   !.EnumTypeSuffixes =
                        IF Len(other.EnumTypeSuffixes) > 0
                        THEN other.EnumTypeSuffixes ELSE c.EnumTypeSuffixes]

\* Config.Merge: nothing for a nil other; else a non-empty list of other
\* replaces the list of c.
Merge(c, other) ==
    IF other = Nil THEN c
    ELSE [c EXCEPT !.LoggerTypePatterns =
                        IF Len(other.LoggerTypePatterns) > 0
                        THEN other.LoggerTypePatterns ELSE c.LoggerTypePatterns,
                   !.EnumTypeSuffixes =
                        IF Len(other.EnumTypeSuffixes) > 0
                        THEN other.EnumTypeSuffixes ELSE c.EnumTypeSuffixes]

\* JSON values, as json.Marshal renders the values of the settings.
JSONNull == [t |-> "null"]
JSONBool(b) == [t |-> "bool", b |-> b]
JSONString(s) == [t |-> "string", s |-> s]
JSONNumber(n) == [t |-> "number", n |-> n]
JSONArray(a) == [t |-> "array", a |-> a]

\* The json tags of Config's fields, in the order json.Marshal writes the
\* keys of a map (sorted).
boolKeys ==
    <<"enable_capital_comment", "enable_current_year", "enable_enum_iota",
      "enable_func_opts", "enable_interface_check", "enable_no_pkg_logger",
      "enable_raw_string", "enable_struct_field_order">>
listKeys == <<"enum_type_suffixes", "logger_type_patterns">>
configKeys == boolKeys \o listKeys

IsBoolKey(k) == \E i \in 1..Len(boolKeys) : boolKeys[i] = k
IsListKey(k) == \E i \in 1..Len(listKeys) : listKeys[i] = k

\* json.Unmarshal can store the value in the field of key k: null leaves
\* any field as it is, a bool field takes a JSON bool, a []string field a
\* JSON array of strings; a key that is no tag of Config is skipped.
Decodable(k, v) ==
    \/ v.t = "null"
    \/ IsBoolKey(k) /\ v.t = "bool"
    \/ IsListKey(k) /\ v.t = "array" /\ \A i \in 1..Len(v.a) : v.a[i].t = "string"
    \/ ~IsBoolKey(k) /\ ~IsListKey(k)

\* The field of userCfg for a bool key and for a list key after
\* json.Unmarshal(data, &userCfg): the zero value unless the key is set.
unmarshalBool(m, k) == IF k \in DOMAIN m /\ m[k].t = "bool" THEN m[k].b ELSE FALSE
unmarshalList(m, k) ==
    IF k \in DOMAIN m /\ m[k].t = "array"
    THEN [i \in 1..Len(m[k].a) |-> IF m[k].a[i].t = "string" THEN m[k].a[i].s ELSE <<>>]
    ELSE <<>>

\* var userCfg Config; json.Unmarshal(data, &userCfg)
unmarshalConfig(m) ==
    [EnableNoPkgLogger |-> unmarshalBool(m, "enable_no_pkg_logger"),
     EnableEnumIota |-> unmarshalBool(m, "enable_enum_iota"),
     EnableCurrentYear |-> unmarshalBool(m, "enable_current_year"),
     EnableCapitalComment |-> unmarshalBool(m, "enable_capital_comment"),
     EnableFuncOpts |-> unmarshalBool(m, "enable_func_opts"),
     EnableRawString |-> unmarshalBool(m, "enable_raw_string"),
     EnableStructFieldOrder |-> unmarshalBool(m, "enable_struct_field_order"),
     EnableInterfaceCheck |-> unmarshalBool(m, "enable_interface_check"),
     LoggerTypePatterns |-> unmarshalList(m, "logger_type_patterns"),
     EnumTypeSuffixes |-> unmarshalList(m, "enum_type_suffixes")]

\* The error of json.Unmarshal(data, &userCfg): it names the first field, in
\* the order of the data, whose value cannot be stored.
unmarshalError(m) ==
    LET bad == {i \in 1..Len(configKeys) :
                    configKeys[i] \in DOMAIN m /\ ~Decodable(configKeys[i], m[configKeys[i]])}
    IN  [type |-> "UnmarshalTypeError", struct |-> "Config",
         field |-> configKeys[CHOOSE i \in bad : \A k \in bad : i <= k]]

\* Mutant of overrideBool: a user's false does not override.
overrideBoolOnlyTrue(m, k, user, default) ==
    IF k \in DOMAIN m /\ user THEN user ELSE default

\* if _, ok := rawSettings[k]; ok { cfg.X = userCfg.X }
overrideBool(m, k, user, default) == IF k \in DOMAIN m THEN user ELSE default

\* The part of New that applies the settings map m to the defaults.
applySettings(m) ==
    LET cfg == DefaultConfig
        userCfg == unmarshalConfig(m)
    IN  Merge(
            [cfg EXCEPT
                !.EnableNoPkgLogger = overrideBool(m, "enable_no_pkg_logger", userCfg.EnableNoPkgLogger, @),
                !.EnableEnumIota = overrideBool(m, "enable_enum_iota", userCfg.EnableEnumIota, @),
                !.EnableCurrentYear = overrideBool(m, "enable_current_year", userCfg.EnableCurrentYear, @),
                !.EnableCapitalComment = overrideBool(m, "enable_capital_comment", userCfg.EnableCapitalComment, @),
                !.EnableFuncOpts = overrideBool(m, "enable_func_opts", userCfg.EnableFuncOpts, @),
                !.EnableRawString = overrideBool(m, "enable_raw_string", userCfg.EnableRawString, @),
                !.EnableStructFieldOrder = overrideBool(m, "enable_struct_field_order", userCfg.EnableStructFieldOrder, @),
                !.EnableInterfaceCheck = overrideBool(m, "enable_interface_check", userCfg.EnableInterfaceCheck, @)],
            userCfg)

\* Mutant of New: a setting that cannot be decoded is ignored.
NewIgnoringErrors(settings) ==
    IF settings.kind = "nil" THEN [plugin |-> [cfg |-> DefaultConfig], err |-> Nil]
    ELSE IF settings.kind # "map" THEN [plugin |-> [cfg |-> DefaultConfig], err |-> Nil]
    ELSE [plugin |-> [cfg |-> applySettings(settings.m)], err |-> Nil]

\* New: the plugin and the error it returns.
New(settings) ==
    IF settings.kind = "nil" THEN [plugin |-> [cfg |-> DefaultConfig], err |-> Nil]
    ELSE IF settings.kind # "map"
    THEN [plugin |-> Nil,
          err |-> [type |-> "UnmarshalTypeError", struct |-> "Config", field |-> ""]]
    ELSE IF \E k \in DOMAIN settings.m : k \in {configKeys[i] : i \in 1..Len(configKeys)}
                                          /\ ~Decodable(k, settings.m[k])
    THEN [plugin |-> Nil, err |-> unmarshalError(settings.m)]
    ELSE [plugin |-> [cfg |-> applySettings(settings.m)], err |-> Nil]

\* const analyzerName of each analyzer package.
nopkgloggerAnalyzerName == <<"a","t","t","g","o","_","n","o","_","p","k","g","_","l","o","g","g","e","r">>
enumiotaAnalyzerName == <<"a","t","t","g","o","_","e","n","u","m","_","i","o","t","a">>
currentyearAnalyzerName == <<"a","t","t","g","o","_","c","u","r","r","e","n","t","_","y","e","a","r">>
capitalcommentAnalyzerName == <<"a","t","t","g","o","_","c","a","p","i","t","a","l","_","c","o","m","m","e","n","t">>
funcoptsAnalyzerName == <<"a","t","t","g","o","_","f","u","n","c","_","o","p","t","s">>
\* Mutant of rawstringAnalyzerName: hyphens for separators.
rawstringAnalyzerNameHyphens == <<"a","t","t","g","o","-","r","a","w","-","s","t","r","i","n","g">>
rawstringAnalyzerName == <<"a","t","t","g","o","_","r","a","w","_","s","t","r","i","n","g">>
structfieldorderAnalyzerName == <<"a","t","t","g","o","_","s","t","r","u","c","t","_","f","i","e","l","d","_","o","r","d","e","r">>
interfacecheckAnalyzerName == <<"a","t","t","g","o","_","i","n","t","e","r","f","a","c","e","_","c","h","e","c","k">>

\* The package-level Analyzer of a rule without parameters, by its Name.
Analyzer(name) == [Name |-> name]

\* Mutant of nopkgloggerNewAnalyzer: the runner keeps the default patterns.
nopkgloggerNewAnalyzerDefaults(loggerTypePatterns) ==
    [Name |-> nopkgloggerAnalyzerName,
     runner |-> [loggerTypePatterns |-> DefaultConfig.LoggerTypePatterns]]

\* nopkglogger.NewAnalyzer: an analyzer whose runner holds the patterns.
nopkgloggerNewAnalyzer(loggerTypePatterns) ==
    [Name |-> nopkgloggerAnalyzerName,
     runner |-> [loggerTypePatterns |-> loggerTypePatterns]]

\* enumiota.NewAnalyzer: an analyzer whose runner holds the suffixes.
enumiotaNewAnalyzer(enumTypeSuffixes) ==
    [Name |-> enumiotaAnalyzerName,
     runner |-> [enumTypeSuffixes |-> enumTypeSuffixes]]

\* Mutant of BuildAnalyzers: every analyzer, whatever the configuration.
BuildAnalyzersAll(p) ==
    [analyzers |->
        <<nopkgloggerNewAnalyzer(p.cfg.LoggerTypePatterns),
          enumiotaNewAnalyzer(p.cfg.EnumTypeSuffixes),
          Analyzer(currentyearAnalyzerName),
          Analyzer(capitalcommentAnalyzerName), Analyzer(funcoptsAnalyzerName),
          Analyzer(rawstringAnalyzerName),
          Analyzer(structfieldorderAnalyzerName), Analyzer(interfacecheckAnalyzerName)>>,
     err |-> Nil]

\* Plugin.BuildAnalyzers: the analyzers, in order, and the error.
BuildAnalyzers(p) ==
    [analyzers |->
        (IF p.cfg.EnableNoPkgLogger
         THEN <<nopkgloggerNewAnalyzer(p.cfg.LoggerTypePatterns)>> ELSE <<>>)
        \o (IF p.cfg.EnableEnumIota
            THEN <<enumiotaNewAnalyzer(p.cfg.EnumTypeSuffixes)>> ELSE <<>>)
        \o (IF p.cfg.EnableCurrentYear THEN <<Analyzer(currentyearAnalyzerName)>> ELSE <<>>)
        \o (IF p.cfg.EnableCapitalComment THEN <<Analyzer(capitalcommentAnalyzerName)>> ELSE <<>>)
        \o (IF p.cfg.EnableFuncOpts THEN <<Analyzer(funcoptsAnalyzerName)>> ELSE <<>>)
        \o (IF p.cfg.EnableRawString THEN <<Analyzer(rawstringAnalyzerName)>> ELSE <<>>)
        \o (IF p.cfg.EnableStructFieldOrder
            THEN <<Analyzer(structfieldorderAnalyzerName)>> ELSE <<>>)
        \o (IF p.cfg.EnableInterfaceCheck
            THEN <<Analyzer(interfacecheckAnalyzerName)>> ELSE <<>>),
     err |-> Nil]

\* The Names of a list of analyzers.
AnalyzerNames(analyzers) == [i \in 1..Len(analyzers) |-> analyzers[i].Name]

\* Values a user writes for an enable flag: a bool, nothing (null), and a
\* string or a number by mistake.
BoolSettings ==
    {JSONBool(TRUE), JSONBool(FALSE), JSONNull, JSONString(<<"y","e","s">>), JSONNumber(1)}

\* Values a user writes for a list: an empty list, lists of strings (one
\* repeats a default pattern), nothing, and a string or a list of numbers
\* by mistake.
ListSettings ==
    {JSONArray(<<>>),
     JSONArray(<<JSONString(<<"P","h","a","s","e">>)>>),
     JSONArray(<<JSONString(<<"*","m","y",".","L","o","g","g","e","r">>), JSONString(<<"z","a","p",".","L","o","g","g","e","r">>)>>),
     JSONNull,
     JSONString(<<"T","y","p","e">>),
     JSONArray(<<JSONNumber(1)>>)}

\* A key that is no setting of the plugin.
UnknownKey == "enable_everything"

SettingKeys == {configKeys[i] : i \in 1..Len(configKeys)} \cup {UnknownKey}

SettingValues(k) ==
    IF IsBoolKey(k) THEN BoolSettings
    ELSE IF IsListKey(k) THEN ListSettings
    ELSE {JSONBool(TRUE)}

MaxKeys == 2

\* The settings maps with at most MaxKeys keys.
SettingsMaps(maxKeys) ==
    UNION {{m \in [S -> BoolSettings \cup ListSettings] :
                \A k \in S : m[k] \in SettingValues(k)} :
           S \in {T \in SUBSET SettingKeys : Cardinality(T) <= maxKeys}}

\* The settings golangci-lint hands to New: none, a map, or a value that is
\* no map.
PluginPasses(maxKeys) ==
    [settings : {[kind |-> "nil"], [kind |-> "string"]}
                \cup {[kind |-> "map", m |-> m] : m \in SettingsMaps(maxKeys)}]

InitPlugin ==
    /\ analyzer = "attgo"
    /\ pc = "start"
    /\ pass \in PluginPasses(MaxKeys)
    /\ diagnostics = <<>>
    /\ ret = FALSE

\* golangci-lint calls New with the settings.
CallNew ==
    /\ analyzer = "attgo"
    /\ pc = "start"
    /\ ret' = New(pass.settings)
    /\ pc' = "new"
    /\ UNCHANGED <<analyzer, pass, diagnostics>>

\* golangci-lint calls BuildAnalyzers on the plugin New returned; there is
\* none when New returned an error.
CallBuildAnalyzers ==
    /\ analyzer = "attgo"
    /\ pc = "new"
    /\ ret.err = Nil
    /\ LET built == BuildAnalyzers(ret.plugin)
       IN  ret' = [plugin |-> ret.plugin, err |-> ret.err,
                   analyzers |-> built.analyzers, buildErr |-> built.err]
    /\ pc' = "built"
    /\ UNCHANGED <<analyzer, pass, diagnostics>>

NextPlugin == CallNew \/ CallBuildAnalyzers

SpecPlugin == InitPlugin /\ [][NextPlugin]_vars

\* New has returned a plugin.
PluginMade == analyzer = "attgo" /\ pc \in {"new", "built"} /\ ret.err = Nil

\* The enable flag of the configuration for a settings key.
FlagOf(cfg, k) ==
    CASE k = "enable_no_pkg_logger" -> cfg.EnableNoPkgLogger
      [] k = "enable_enum_iota" -> cfg.EnableEnumIota
      [] k = "enable_current_year" -> cfg.EnableCurrentYear
      [] k = "enable_capital_comment" -> cfg.EnableCapitalComment
      [] k = "enable_func_opts" -> cfg.EnableFuncOpts
      [] k = "enable_raw_string" -> cfg.EnableRawString
      [] k = "enable_struct_field_order" -> cfg.EnableStructFieldOrder
      [] k = "enable_interface_check" -> cfg.EnableInterfaceCheck

\* The list of the configuration for a settings key.
ListOf(cfg, k) ==
    CASE k = "logger_type_patterns" -> cfg.LoggerTypePatterns
      [] k = "enum_type_suffixes" -> cfg.EnumTypeSuffixes

EnableKeys ==
    {"enable_no_pkg_logger", "enable_enum_iota", "enable_current_year",
     "enable_capital_comment", "enable_func_opts", "enable_raw_string",
     "enable_struct_field_order", "enable_interface_check"}

\* The rules that are enabled by default.
EnabledByDefault == {"enable_no_pkg_logger", "enable_enum_iota", "enable_current_year"}

\* C17: for each of the eight enable flags, a key present in the user
\* settings with a boolean value gives the flag that value (an explicit
\* false for a default-enabled rule and a value equal to the default
\* included), and an absent key leaves the flag at its default.
C17_BooleanMerge ==
    PluginMade =>
        \A k \in EnableKeys :
            IF pass.settings.kind = "map" /\ k \in DOMAIN pass.settings.m
            THEN pass.settings.m[k].t = "bool"
                    => FlagOf(ret.plugin.cfg, k) = pass.settings.m[k].b
            ELSE FlagOf(ret.plugin.cfg, k) = (k \in EnabledByDefault)

\* C17 witness: the settings { enable_no_pkg_logger: false,
\* enable_raw_string: false } have switched the default-enabled rule off.
C17_Witness ==
    /\ PluginMade
    /\ pass.settings.kind = "map"
    /\ DOMAIN pass.settings.m = {"enable_no_pkg_logger", "enable_raw_string"}
    /\ pass.settings.m["enable_no_pkg_logger"] = JSONBool(FALSE)
    /\ pass.settings.m["enable_raw_string"] = JSONBool(FALSE)
    /\ ret.plugin.cfg.EnableNoPkgLogger = FALSE
    /\ ret.plugin.cfg.EnableRawString = FALSE

\* The list the user gave for key k: <<>> when the key is absent or null.
UserList(k) ==
    IF /\ pass.settings.kind = "map"
       /\ k \in DOMAIN pass.settings.m
       /\ pass.settings.m[k].t = "array"
    THEN [i \in 1..Len(pass.settings.m[k].a) |-> pass.settings.m[k].a[i].s]
    ELSE <<>>

\* C18: for each of the two list parameters a non-empty user list replaces
\* the default list wholesale, and an absent or empty user list leaves the
\* default list unchanged.
C18_ListMerge ==
    PluginMade =>
        \A k \in {"logger_type_patterns", "enum_type_suffixes"} :
            IF UserList(k) # <<>>
            THEN ListOf(ret.plugin.cfg, k) = UserList(k)
            ELSE ListOf(ret.plugin.cfg, k) = ListOf(DefaultConfig, k)

\* C18 witness: the user's two logger patterns are the whole list, and the
\* enum suffixes, not set, are the defaults.
C18_Witness ==
    /\ PluginMade
    /\ pass.settings.kind = "map"
    /\ DOMAIN pass.settings.m = {"logger_type_patterns"}
    /\ ret.plugin.cfg.LoggerTypePatterns = <<<<"*","m","y",".","L","o","g","g","e","r">>, <<"z","a","p",".","L","o","g","g","e","r">>>>
    /\ ret.plugin.cfg.EnumTypeSuffixes = <<<<"T","y","p","e">>, <<"S","t","a","t","u","s">>, <<"S","t","a","t","e">>, <<"K","i","n","d">>, <<"M","o","d","e">>>>

\* No settings: nil, or a map without keys.
NoUserSettings ==
    \/ pass.settings.kind = "nil"
    \/ pass.settings.kind = "map" /\ DOMAIN pass.settings.m = {}

\* C19: with no user settings exactly three rules are enabled
\* (no-pkg-logger, enum-iota, current-year) and five are disabled; the
\* default enum suffixes are exactly Type, Status, State, Kind, Mode; every
\* default logger pattern is present in its value and in its pointer form.
C19_Defaults ==
    (PluginMade /\ NoUserSettings) =>
        LET cfg == ret.plugin.cfg
            patterns == {cfg.LoggerTypePatterns[i] : i \in 1..Len(cfg.LoggerTypePatterns)}
        IN  /\ {k \in EnableKeys : FlagOf(cfg, k)}
                = {"enable_no_pkg_logger", "enable_enum_iota", "enable_current_year"}
            /\ Cardinality({k \in EnableKeys : ~FlagOf(cfg, k)}) = 5
            /\ cfg.EnumTypeSuffixes = <<<<"T","y","p","e">>, <<"S","t","a","t","u","s">>, <<"S","t","a","t","e">>, <<"K","i","n","d">>, <<"M","o","d","e">>>>
            /\ patterns # {}
            /\ \A p \in patterns :
                IF p[1] = "*" THEN Tail(p) \in patterns ELSE <<"*">> \o p \in patterns
            /\ pc = "built" =>
                AnalyzerNames(ret.analyzers)
                    = <<nopkgloggerAnalyzerName, enumiotaAnalyzerName, currentyearAnalyzerName>>

\* C19 witness: without settings the plugin has built its three analyzers.
C19_Witness ==
    /\ PluginMade
    /\ pass.settings.kind = "nil"
    /\ pc = "built"
    /\ Len(ret.analyzers) = 3

\* The value cannot be decoded into the shape of the field of key k.
Malformed(k, v) ==
    \/ k \in EnableKeys /\ v.t \notin {"bool", "null"}
    \/ /\ k \in {"logger_type_patterns", "enum_type_suffixes"}
       /\ \/ v.t \notin {"array", "null"}
          \/ v.t = "array" /\ \E i \in 1..Len(v.a) : v.a[i].t # "string"

MalformedKeys ==
    IF pass.settings.kind = "map"
    THEN {k \in DOMAIN pass.settings.m : Malformed(k, pass.settings.m[k])}
    ELSE {}

\* C20: when a present setting cannot be decoded into its declared shape,
\* New returns an error that names an offending field and no plugin, and
\* BuildAnalyzers is never reached.
C20_MalformedSettings ==
    (analyzer = "attgo" /\ MalformedKeys # {}) =>
        /\ pc # "built"
        /\ pc = "new" =>
            /\ ret.plugin = Nil
            /\ ret.err # Nil
            /\ ret.err.field \in MalformedKeys

\* C20 witness: for { enable_enum_iota: "yes" } New has returned an error
\* that names enable_enum_iota.
C20_Witness ==
    /\ analyzer = "attgo"
    /\ pc = "new"
    /\ pass.settings.kind = "map"
    /\ DOMAIN pass.settings.m = {"enable_enum_iota"}
    /\ pass.settings.m["enable_enum_iota"] = JSONString(<<"y","e","s">>)
    /\ ret.plugin = Nil
    /\ ret.err.field = "enable_enum_iota"

\* The Name of the analyzer that an enable flag switches.
RuleOf(k) ==
    CASE k = "enable_no_pkg_logger" -> nopkgloggerAnalyzerName
      [] k = "enable_enum_iota" -> enumiotaAnalyzerName
      [] k = "enable_current_year" -> currentyearAnalyzerName
      [] k = "enable_capital_comment" -> capitalcommentAnalyzerName
      [] k = "enable_func_opts" -> funcoptsAnalyzerName
      [] k = "enable_raw_string" -> rawstringAnalyzerName
      [] k = "enable_struct_field_order" -> structfieldorderAnalyzerName
      [] k = "enable_interface_check" -> interfacecheckAnalyzerName

\* BuildAnalyzers has returned.
PluginBuilt == analyzer = "attgo" /\ pc = "built"

\* C21: BuildAnalyzers returns exactly one analyzer for each rule whose
\* enable flag is true in the merged configuration and none for a rule whose
\* flag is false, always with a nil error; the logger and the enum analyzer
\* hold the merged pattern list and the merged suffix list.
C21_RuleRegistry ==
    PluginBuilt =>
        LET cfg == ret.plugin.cfg
            built == ret.analyzers
        IN  /\ ret.buildErr = Nil
            /\ \A k \in EnableKeys :
                Cardinality({i \in 1..Len(built) : built[i].Name = RuleOf(k)})
                    = IF FlagOf(cfg, k) THEN 1 ELSE 0
            /\ \A i \in 1..Len(built) : \E k \in EnableKeys : built[i].Name = RuleOf(k)
            /\ \A i \in 1..Len(built) :
                /\ built[i].Name = nopkgloggerAnalyzerName
                    => built[i].runner.loggerTypePatterns = cfg.LoggerTypePatterns
                /\ built[i].Name = enumiotaAnalyzerName
                    => built[i].runner.enumTypeSuffixes = cfg.EnumTypeSuffixes
            /\ cfg.LoggerTypePatterns =
                    IF UserList("logger_type_patterns") # <<>>
                    THEN UserList("logger_type_patterns")
                    ELSE DefaultConfig.LoggerTypePatterns

\* C21 witness: for { enable_enum_iota: false, logger_type_patterns:
\* [*my.Logger, zap.Logger] } the logger analyzer, holding the user's two
\* patterns, and the current-year analyzer are built, and no enum analyzer.
C21_Witness ==
    /\ PluginBuilt
    /\ pass.settings.kind = "map"
    /\ DOMAIN pass.settings.m = {"enable_enum_iota", "logger_type_patterns"}
    /\ pass.settings.m["enable_enum_iota"] = JSONBool(FALSE)
    /\ AnalyzerNames(ret.analyzers) = <<nopkgloggerAnalyzerName, currentyearAnalyzerName>>
    /\ ret.analyzers[1].runner.loggerTypePatterns = <<<<"*","m","y",".","L","o","g","g","e","r">>, <<"z","a","p",".","L","o","g","g","e","r">>>>

-----------------------------------------------------------------------------
(* The rules of one plugin run over one unit, step by step and interleaved *)

NoPkgLogger == nopkgloggerAnalyzerName
EnumIota == enumiotaAnalyzerName

\* Mutant of Report: a report replaces what the other rules have reported.
ReportShared(diags, r, k, new) ==
    [x \in DOMAIN diags |->
        IF x = r THEN [diags[x] EXCEPT ![k] = @ \o new]
        ELSE [j \in 1..Len(diags[x]) |-> <<>>]]

\* pass.Reportf in run k of rule r: the diagnostics are appended to the list
\* of that rule's own pass.
Report(diags, r, k, new) == [diags EXCEPT ![r][k] = @ \o new]

\* One round of `for _, decl := range file.Decls` in nopkglogger's run.
loggerDecl(decls, d, runner) ==
    IF decls[d].node # "GenDecl"
    THEN <<>>
    ELSE loggerSpecs(decls[d].specs, 1, d, runner.loggerTypePatterns)

\* One round of the first loop of enumiota's run: the enumTypes map after
\* declaration d.
enumCollectDecl(decls, d, runner, enums) ==
    IF decls[d].node # "GenDecl" \/ decls[d].tok # "TYPE"
    THEN enums
    ELSE enums \cup
            {decls[d].specs[s].name :
                s \in {t \in 1..Len(decls[d].specs) :
                        /\ decls[d].specs[t].node = "TypeSpec"
                        /\ isEnumTypeName(decls[d].specs[t].name, runner.enumTypeSuffixes)}}

\* One round of the second loop of enumiota's run.
enumCheckDecl(decls, d, enums) ==
    IF decls[d].node # "GenDecl" \/ decls[d].tok # "CONST"
    THEN <<>>
    ELSE checkConstDecl(decls[d].specs, 1, d, enums)

\* The declarations of a unit that both rules read: enum types, constants
\* of them, loggers at package level and inside a function.
UnitTypeDecl(name) ==
    [node |-> "GenDecl", tok |-> "TYPE",
     specs |-> <<[node |-> "TypeSpec", name |-> name, underlying |-> "string"]>>]
UnitConstDecl(typeName, value) ==
    [node |-> "GenDecl", tok |-> "CONST",
     specs |-> <<[node |-> "ValueSpec",
                  names |-> <<[obj |-> "pkg", type |-> <<"r", ".">> \o typeName]>>,
                  type |-> [kind |-> "Named", name |-> typeName,
                            underlying |-> "string", pkg |-> "local"],
                  values |-> <<value>>]>>]
UnitVarDecl(node, obj, type) ==
    [node |-> node, tok |-> "VAR",
     specs |-> <<[node |-> "ValueSpec", names |-> <<[obj |-> obj, type |-> type]>>,
                  type |-> [kind |-> "Named", name |-> type,
                            underlying |-> "struct", pkg |-> "other"],
                  values |-> <<>>]>>]

UnitDecls ==
    {UnitTypeDecl(SANType),
     UnitConstDecl(SANType, "STRING"),
     UnitVarDecl("GenDecl", "pkg", LoggerValue),
     UnitVarDecl("FuncDecl", "local", LoggerValue)}

MaxUnitDecls == 3

\* How often the driver runs each analyzer (once for each package it
\* loads; here the same unit again).
Runs == 2

\* The configurations of the plugin that switch the two rules.
UnitConfigs ==
    {[DefaultConfig EXCEPT !.EnableNoPkgLogger = l, !.EnableEnumIota = e,
                           !.EnableCurrentYear = FALSE,
                           !.LoggerTypePatterns = <<ValuePattern, PointerPattern>>] :
        l \in BOOLEAN, e \in BOOLEAN}

UnitPasses(maxDecls) == [decls : SeqsUpTo(UnitDecls, maxDecls), cfg : UnitConfigs]

\* The analyzers the plugin builds for the configuration, by Name.
Built(cfg) ==
    LET as == BuildAnalyzers([cfg |-> cfg]).analyzers
    IN  [n \in {as[i].Name : i \in 1..Len(as)} |->
            (CHOOSE a \in {as[i] : i \in 1..Len(as)} : a.Name = n)]

\* Where a run of a rule starts.
RunStart(r, k) ==
    [run |-> k, phase |-> IF r = EnumIota THEN "collect" ELSE "loop", d |-> 1]

InitRules ==
    /\ analyzer = "driver"
    /\ pass \in UnitPasses(MaxUnitDecls)
    /\ pc = [r \in DOMAIN Built(pass.cfg) |-> RunStart(r, 1)]
    /\ diagnostics = [r \in DOMAIN Built(pass.cfg) |-> [k \in 1..Runs |-> <<>>]]
    /\ ret = [r \in DOMAIN Built(pass.cfg) |->
                [runner |-> Built(pass.cfg)[r].runner, enumTypes |-> {}, results |-> <<>>]]

Running(r, phase) ==
    /\ analyzer = "driver"
    /\ r \in DOMAIN pc
    /\ pc[r].phase = phase

\* nopkglogger's run handles the next declaration.
NoPkgLoggerDecl ==
    /\ Running(NoPkgLogger, "loop")
    /\ pc[NoPkgLogger].d <= Len(pass.decls)
    /\ diagnostics' = Report(diagnostics, NoPkgLogger, pc[NoPkgLogger].run,
                             loggerDecl(pass.decls, pc[NoPkgLogger].d, ret[NoPkgLogger].runner))
    /\ pc' = [pc EXCEPT ![NoPkgLogger].d = @ + 1]
    /\ UNCHANGED <<analyzer, pass, ret>>

\* enumiota's run handles the next declaration in its first loop.
EnumIotaCollectDecl ==
    /\ Running(EnumIota, "collect")
    /\ pc[EnumIota].d <= Len(pass.decls)
    /\ ret' = [ret EXCEPT ![EnumIota].enumTypes =
                    enumCollectDecl(pass.decls, pc[EnumIota].d, ret[EnumIota].runner, @)]
    /\ pc' = [pc EXCEPT ![EnumIota].d = @ + 1]
    /\ UNCHANGED <<analyzer, pass, diagnostics>>

\* enumiota's run goes from its first loop to its second.
EnumIotaSecondLoop ==
    /\ Running(EnumIota, "collect")
    /\ pc[EnumIota].d > Len(pass.decls)
    /\ pc' = [pc EXCEPT ![EnumIota].phase = "check", ![EnumIota].d = 1]
    /\ UNCHANGED <<analyzer, pass, diagnostics, ret>>

\* enumiota's run handles the next declaration in its second loop.
EnumIotaCheckDecl ==
    /\ Running(EnumIota, "check")
    /\ pc[EnumIota].d <= Len(pass.decls)
    /\ diagnostics' = Report(diagnostics, EnumIota, pc[EnumIota].run,
                             enumCheckDecl(pass.decls, pc[EnumIota].d, ret[EnumIota].enumTypes))
    /\ pc' = [pc EXCEPT ![EnumIota].d = @ + 1]
    /\ UNCHANGED <<analyzer, pass, ret>>

\* return nil, nil: the run of rule r is over; the driver runs the analyzer
\* again, with a new enumTypes map, until it has run it Runs times.
RuleReturn(r) ==
    /\ Running(r, IF r = EnumIota THEN "check" ELSE "loop")
    /\ pc[r].d > Len(pass.decls)
    /\ ret' = [ret EXCEPT ![r].results = Append(@, Nil), ![r].enumTypes = {}]
    /\ pc' = [pc EXCEPT ![r] = IF pc[r].run < Runs THEN RunStart(r, pc[r].run + 1)
                              ELSE [run |-> pc[r].run, phase |-> "done", d |-> pc[r].d]]
    /\ UNCHANGED <<analyzer, pass, diagnostics>>

NoPkgLoggerReturn == RuleReturn(NoPkgLogger)
EnumIotaReturn == RuleReturn(EnumIota)

NextRules ==
    \/ NoPkgLoggerDecl
    \/ NoPkgLoggerReturn
    \/ EnumIotaCollectDecl
    \/ EnumIotaSecondLoop
    \/ EnumIotaCheckDecl
    \/ EnumIotaReturn

SpecRules == InitRules /\ [][NextRules]_vars

\* What rule r reports for the unit when it runs alone from start to end.
Alone(r) ==
    IF r = NoPkgLogger
    THEN nopkgloggerRun([decls |-> pass.decls,
                         loggerTypePatterns |-> pass.cfg.LoggerTypePatterns])
    ELSE enumiotaRun([decls |-> pass.decls,
                      enumTypeSuffixes |-> pass.cfg.EnumTypeSuffixes])

\* Run k of rule r is over.
RunOver(r, k) == pc[r].phase = "done" \/ pc[r].run > k

AllRulesDone == analyzer = "driver" /\ \A r \in DOMAIN pc : pc[r].phase = "done"

SetOf(seq) == {seq[i] : i \in 1..Len(seq)}

\* The diagnostics of run k of all rules, merged.
Merged(k) == UNION {SetOf(diagnostics[r][k]) : r \in DOMAIN diagnostics}

-----------------------------------------------------------------------------
(* Every rule on small and degenerate units; the string helpers on short
   strings *)

\* A Go slice expression s[lo:hi] on a string of length len is in range.
SliceInRange(len, lo, hi) == 0 <= lo /\ lo <= hi /\ hi <= len

\* Mutant of countEscapesPanics: the test len(s) < 2 is left out.
countEscapesPanicsUnguarded(s) == ~SliceInRange(Len(s), 1, Len(s) - 1)

\* countEscapes panics: after `if len(s) < 2 { return 0 }` the slice
\* s[1 : len(s)-1] is taken; the loop reads s[i] under i < len(s) and s[i+1]
\* under i+1 < len(s).
countEscapesPanics(s) ==
    IF Len(s) < 2 THEN FALSE ELSE ~SliceInRange(Len(s), 1, Len(s) - 1)

\* interpretString panics: the same test, slice and loop as countEscapes.
interpretStringPanics(s) ==
    IF Len(s) < 2 THEN FALSE ELSE ~SliceInRange(Len(s), 1, Len(s) - 1)

\* The outcome of a call: a panic, or the value returned.
Outcome(panics, value) ==
    IF panics THEN [panic |-> TRUE, value |-> Nil] ELSE [panic |-> FALSE, value |-> value]

\* The bound of the units, and the strings up to two characters longer.
MaxSmallUnit == 1

ShortStrings(maxLen) == SeqsUpTo({Quote, Backslash, "a", "n"}, maxLen)

InitRule(name, passes) ==
    /\ analyzer = name
    /\ pc = "start"
    /\ pass \in passes
    /\ diagnostics = <<>>
    /\ ret = FALSE

InitAllRules ==
    \/ InitRule("attgo_no_pkg_logger", LoggerPasses(MaxSmallUnit))
    \/ InitRule("attgo_enum_iota", EnumPasses(MaxSmallUnit))
    \/ InitRule("attgo_current_year", YearPasses(MaxSmallUnit))
    \/ InitRule("attgo_capital_comment", CommentPasses(MaxSmallUnit))
    \/ InitRule("attgo_func_opts", FuncOptsPasses(MaxSmallUnit))
    \/ InitRule("attgo_raw_string", RawStringPasses(MaxSmallUnit + 2))
    \/ InitRule("attgo_struct_field_order", FieldOrderPasses(MaxSmallUnit))
    \/ InitRule("attgo_interface_check", IfacePasses(MaxSmallUnit))
    \/ InitRule("countEscapes", [s : ShortStrings(MaxSmallUnit + 2)])
    \/ InitRule("interpretString", [s : ShortStrings(MaxSmallUnit + 2)])

\* countEscapes(s) is called.
CallCountEscapes ==
    /\ analyzer = "countEscapes"
    /\ pc = "start"
    /\ ret' = Outcome(countEscapesPanics(pass.s), countEscapes(pass.s))
    /\ pc' = "done"
    /\ UNCHANGED <<analyzer, pass, diagnostics>>

\* interpretString(s) is called.
CallInterpretString ==
    /\ analyzer = "interpretString"
    /\ pc = "start"
    /\ ret' = Outcome(interpretStringPanics(pass.s), interpretString(pass.s))
    /\ pc' = "done"
    /\ UNCHANGED <<analyzer, pass, diagnostics>>

NextAllRules ==
    \/ RunNoPkgLogger
    \/ RunEnumIota
    \/ RunCurrentYear
    \/ RunCapitalComment
    \/ RunFuncOpts
    \/ RunRawString
    \/ RunStructFieldOrder
    \/ RunInterfaceCheck
    \/ CallCountEscapes
    \/ CallInterpretString

SpecAllRules == InitAllRules /\ [][NextAllRules]_vars

RuleNames ==
    {"attgo_no_pkg_logger", "attgo_enum_iota", "attgo_current_year",
     "attgo_capital_comment", "attgo_func_opts", "attgo_raw_string",
     "attgo_struct_field_order", "attgo_interface_check"}

\* C23: each of the eight rules returns nil, nil on every unit; countEscapes
\* and interpretString return 0 and "" for a string shorter than 2
\* characters and never panic; a struct without fields, an interface without
\* methods, a file without comments and a name without an object get no
\* diagnostic.
C23_NoRuleFails ==
    pc = "done" =>
        /\ analyzer \in RuleNames => ret = ReturnNil
        /\ analyzer = "countEscapes" =>
            /\ ~ret.panic
            /\ Len(pass.s) < 2 => ret.value = 0
        /\ analyzer = "interpretString" =>
            /\ ~ret.panic
            /\ Len(pass.s) < 2 => ret.value = <<>>
        /\ analyzer = "attgo_struct_field_order" =>
            \A k \in 1..Len(pass.specs) :
                (pass.specs[k].type.node = "StructType" /\ pass.specs[k].type.fields = <<>>)
                    => \A i \in 1..Len(diagnostics) : diagnostics[i].pos[1] # k
        /\ analyzer = "attgo_interface_check" =>
            \A n \in DOMAIN pass.scope :
                (pass.scope[n].kind = "interface" /\ pass.scope[n].methods = {})
                    => \A i \in 1..Len(diagnostics) : diagnostics[i].iface # n
        /\ analyzer = "attgo_capital_comment" =>
            (pass.comments = <<>> => diagnostics = <<>>)
        /\ analyzer = "attgo_current_year" =>
            \A f \in 1..Len(pass.files) :
                pass.files[f].comments = <<>> => FileDiags(f) = <<>>
        /\ analyzer = "attgo_no_pkg_logger" =>
            \A d \in 1..Len(pass.decls) :
                \A s \in 1..Len(pass.decls[d].specs) :
                    \A n \in 1..Len(pass.decls[d].specs[s].names) :
                        pass.decls[d].specs[s].names[n].obj = "nil"
                            => CountAt(diagnostics, <<d, s, n>>) = 0

\* C23 witness: the interface check has returned nil, nil for a package
\* whose interface I has no methods: the struct S, which implements J, is
\* reported for J only.
C23_Witness ==
    /\ analyzer = "attgo_interface_check"
    /\ pc = "done"
    /\ ret = ReturnNil
    /\ pass.scope["I"] = InterfaceTypes({})
    /\ pass.scope["S"] = StructTypes({"Read"}, {})
    /\ pass.scope["J"] = InterfaceTypes({"Read"})
    /\ pass.decls = <<>>
    /\ \E i \in 1..Len(diagnostics) : diagnostics[i] = IfaceDiag("S", "J")

-----------------------------------------------------------------------------
(* The identifiers of the rules *)

\* The Name of the eight analyzers.
analyzerNames ==
    {nopkgloggerAnalyzerName, enumiotaAnalyzerName, currentyearAnalyzerName,
     capitalcommentAnalyzerName, funcoptsAnalyzerName, rawstringAnalyzerName,
     structfieldorderAnalyzerName, interfacecheckAnalyzerName}

\* The name is attgo_<rule_name>: after the prefix come words of lower-case
\* letters, separated by single underscores.
IdentifierForm(name) ==
    /\ HasPrefix(name, <<"a","t","t","g","o","_">>)
    /\ Len(name) > Len(<<"a","t","t","g","o","_">>)
    /\ \A i \in 1..Len(name) :
        \/ \E l \in 1..Len(LowerLetters) : name[i] = LowerLetters[l]
        \/ /\ name[i] = "_"
           /\ 1 < i /\ i < Len(name)
           /\ name[i + 1] # "_"

-----------------------------------------------------------------------------
(* enumiota and the order of the declarations *)

\* The declarations in the order perm: the declaration at place i is the
\* one that was at place perm[i].
Permuted(decls, perm) == [i \in 1..Len(decls) |-> decls[perm[i]]]

\* C25: in whatever order the declarations of the unit stand (the files of
\* a unit are read one after the other, so another file is another place in
\* the order), the same constant specifications are flagged, each as often.
C25_OrderIndependent ==
    EnumDone =>
        \A perm \in Orders(1..Len(pass.decls)) :
            LET other == enumiotaRun([pass EXCEPT !.decls = Permuted(pass.decls, perm)])
            IN  /\ Len(other) = Len(diagnostics)
                /\ \A i \in 1..Len(pass.decls) :
                    \A s \in 1..Len(pass.decls[perm[i]].specs) :
                        CountAt(other, <<i, s, 1>>)
                            = CountAt(diagnostics, <<perm[i], s, 1>>)

\* C25 witness: the constant group stands before the declaration of its
\* enum type and is flagged.
C25_Witness ==
    /\ EnumDone
    /\ Len(pass.decls) = 2
    /\ pass.decls[1].tok = "CONST"
    /\ pass.decls[2].tok = "TYPE"
    /\ pass.decls[2].specs[1].name = SANType
    /\ pass.decls[1].specs[1].type.name = SANType
    /\ pass.decls[1].specs[1].type.pkg = "local"
    /\ diagnostics = <<EnumDiag(1, 1)>>

-----------------------------------------------------------------------------
(* interfacecheck: which declarations count as an assertion *)

\* S or *S has every method of I, and I has a method.
Reportable(structName, ifaceName) ==
    /\ pass.scope[structName].kind = "struct"
    /\ pass.scope[ifaceName].kind = "interface"
    /\ pass.scope[ifaceName].methods # {}
    /\ pass.scope[ifaceName].methods
        \subseteq (pass.scope[structName].valueMethods
                   \cup pass.scope[structName].pointerMethods)

\* The declaration is var _ I = (*S)(nil) by the names alone: the type is
\* the name I or a selector pkg.I, the one value the cast to *S or *pkg.S of
\* nil.
NamesPair(decl, ifaceName, structName) ==
    /\ decl.node = "GenDecl"
    /\ decl.tok = "VAR"
    /\ \E s \in 1..Len(decl.specs) :
        /\ decl.specs[s].names = <<"_">>
        /\ decl.specs[s].type \in TypeRefs(ifaceName)
        /\ \E st \in TypeRefs(structName) : decl.specs[s].values = <<NilCast(st)>>

\* C26: a reportable pair (I, S) of the package gets no diagnostic when
\* some declaration is var _ I = (*S)(nil) by the names alone, I and S bare
\* or package-qualified, whatever the qualified names refer to; it gets
\* exactly one when no declaration has that form, other forms of assertion
\* included.
C26_NameBasedAssertion ==
    IfaceDone =>
        \A sn, in \in DOMAIN pass.scope :
            Reportable(sn, in) =>
                CountPair(diagnostics, sn, in) =
                    (IF \E d \in 1..Len(pass.decls) : NamesPair(pass.decls[d], in, sn)
                     THEN 0 ELSE 1)

\* C26 witness: var _ pkg.I = (*pkg.S)(nil), about the types of another
\* package, has suppressed the diagnostic for the local S and I; T, which
\* implements I too, is reported.
C26_Witness ==
    /\ IfaceDone
    /\ Reportable("S", "I")
    /\ Reportable("T", "I")
    /\ Len(pass.decls) = 1
    /\ pass.decls[1].tok = "VAR"
    /\ pass.decls[1].specs[1].names = <<"_">>
    /\ pass.decls[1].specs[1].type = SelectorExpr(Ident("pkg"), Ident("I"))
    /\ pass.decls[1].specs[1].values = <<NilCast(SelectorExpr(Ident("pkg"), Ident("S")))>>
    /\ CountPair(diagnostics, "S", "I") = 0
    /\ CountPair(diagnostics, "T", "I") = 1

-----------------------------------------------------------------------------
(* structfieldorder: the field a field is compared with *)

\* What the rule of the previous named field gives for the named fields nf
\* of the struct structName, from field n on.
RECURSIVE AgainstPrevious(_, _, _)
AgainstPrevious(nf, n, structName) ==
    IF n > Len(nf) THEN <<>>
    ELSE (IF n > 1 /\ nf[n].cat < nf[n - 1].cat
          THEN <<FieldOrderDiag(nf[n].pos, nf[n].name, nf[n].cat,
                                nf[n - 1].name, nf[n - 1].cat, structName)>>
          ELSE <<>>)
         \o AgainstPrevious(nf, n + 1, structName)

\* The diagnostics at the fields of the struct at place k, in order.
StructDiags(k) == SelectSeq(diagnostics, LAMBDA d : d.pos[1] = k)

-----------------------------------------------------------------------------
(* enumiota: a constant specification is judged as a whole *)

\* The type is a named type with underlying type string whose name is that of
\* a type declared in the unit with an enum-like suffix.
NamesStringEnum(t) ==
    /\ t.kind = "Named"
    /\ t.underlying = "string"
    /\ EndsWithSuffix(t.name, pass.enumTypeSuffixes)
    /\ \E e \in 1..Len(pass.decls) :
            /\ pass.decls[e].tok = "TYPE"
            /\ pass.decls[e].specs[1].name = t.name

\* The diagnostics inside the constant declaration d.
DeclDiags(d) == SelectSeq(diagnostics, LAMBDA x : x.pos[1] = d)

\* C28: a constant specification has at most one diagnostic, at its first
\* name; it has one exactly when the type of its first name is a string enum
\* type and some value of the specification, of whichever name, is a string
\* literal, whatever the type of a second name is; a specification without
\* values has none.
C28_SpecAsAWhole ==
    EnumDone =>
        \A d \in 1..Len(pass.decls) :
            pass.decls[d].tok = "CONST" =>
                LET vs == pass.decls[d].specs[1]
                    flagged == /\ NamesStringEnum(vs.type)
                               /\ \E i \in 1..Len(vs.values) : vs.values[i] = "STRING"
                IN  /\ DeclDiags(d) = (IF flagged THEN <<EnumDiag(d, 1)>> ELSE <<>>)
                    /\ vs.values = <<>> => DeclDiags(d) = <<>>

\* C28 witness: after type SANType string, const A, B = SANType(x), "b" has
\* one diagnostic, at A, for the literal of B, whose type is not SANType.
C28_Witness ==
    /\ EnumDone
    /\ Len(pass.decls) = 2
    /\ pass.decls[1].tok = "TYPE"
    /\ pass.decls[2].tok = "CONST"
    /\ pass.decls[2].specs[1].names = <<"A", "B">>
    /\ pass.decls[2].specs[1].type.name = SANType
    /\ pass.decls[2].specs[1].type.pkg = "local"
    /\ pass.decls[2].specs[1].otherType = UntypedString
    /\ pass.decls[2].specs[1].values = <<"EXPR", "STRING">>
    /\ diagnostics = <<EnumDiag(2, 1)>>

-----------------------------------------------------------------------------
(* interfacecheck: the iteration order of the two maps *)

\* The runs of interfacecheck over the unit p, one for each order in which
\* the struct map and, for each struct, the interface map may be iterated.
IfaceRuns(p) ==
    UNION {
        {interfacecheckRun(p, so, ios) :
            ios \in [1..Len(so) -> Orders(ifaceInterfaces(p.scope))]} :
        so \in Orders(ifaceStructs(p.scope))}

\* C29: whatever order the two maps are iterated in, the run emits the same
\* diagnostics the same number of times: every other run of the same unit
\* has the same length and the same set of diagnostics as this one.
C29_DeterministicAsSet ==
    IfaceDone =>
        \A other \in IfaceRuns(pass) :
            /\ SetOf(other) = SetOf(diagnostics)
            /\ Len(other) = Len(diagnostics)
            /\ Cardinality(SetOf(other)) = Len(other)

\* C29 witness: S and T each implement I and J, this run reported T before S
\* and for S reported J before I, and another run of the same unit emits the
\* same four diagnostics in another order.
C29_Witness ==
    /\ IfaceDone
    /\ pass.decls = <<>>
    /\ diagnostics = <<IfaceDiag("T", "I"), IfaceDiag("T", "J"),
                       IfaceDiag("S", "J"), IfaceDiag("S", "I")>>
    /\ \E other \in IfaceRuns(pass) : other # diagnostics

-----------------------------------------------------------------------------
(* Config.Merge on its own: c.Merge(other), called twice *)

\* The two Config values of a call, by the pointers that reach them.
Receiver == "c"
Argument == "other"

\* c.Merge(arg) on the store: only the Config at c is assigned to; arg is
\* nil, a pointer to another Config, or c itself.
MergeAt(store, c, arg) ==
    [store EXCEPT ![c] = Merge(store[c], IF arg = Nil THEN Nil ELSE store[arg.ptr])]

\* The settings of the eight enable flags the calls are made with: the
\* defaults, their complement, all set and none set.
FlagNames ==
    {"EnableNoPkgLogger", "EnableEnumIota", "EnableCurrentYear", "EnableCapitalComment",
     "EnableFuncOpts", "EnableRawString", "EnableStructFieldOrder", "EnableInterfaceCheck"}
Flags(cfg) == [f \in FlagNames |-> cfg[f]]
FlagSettings ==
    {Flags(DefaultConfig),
     [f \in FlagNames |-> ~DefaultConfig[f]],
     [f \in FlagNames |-> TRUE],
     [f \in FlagNames |-> FALSE]}

MaxListLen == 1

\* The pattern and suffix lists of at most maxLen entries.
MergeLists(maxLen) == SeqsUpTo({<<"*","z","a","p",".","L","o","g","g","e","r">>, <<"K","i","n","d">>}, maxLen)

\* The configurations with these flags and lists.
Configs(maxLen) ==
    {[f \in FlagNames \cup {"LoggerTypePatterns", "EnumTypeSuffixes"} |->
        IF f = "LoggerTypePatterns" THEN ps
        ELSE IF f = "EnumTypeSuffixes" THEN ss
        ELSE fl[f]] :
        fl \in FlagSettings, ps \in MergeLists(maxLen), ss \in MergeLists(maxLen)}

MergePasses(maxLen) ==
    [store : [{Receiver, Argument} -> Configs(maxLen)],
     arg : {Nil, [ptr |-> Argument], [ptr |-> Receiver]}]

InitMerge ==
    /\ analyzer = "config"
    /\ pc = "start"
    /\ pass \in MergePasses(MaxListLen)
    /\ diagnostics = <<>>
    /\ ret = [store |-> pass.store, first |-> pass.store]

\* c.Merge(arg), a first and a second time with the same argument.
CallMerge ==
    /\ analyzer = "config"
    /\ pc \in {"start", "merged"}
    /\ LET after == MergeAt(ret.store, Receiver, pass.arg)
       IN  ret' = [store |-> after,
                   first |-> IF pc = "start" THEN after ELSE ret.first]
    /\ pc' = (IF pc = "start" THEN "merged" ELSE "merged twice")
    /\ UNCHANGED <<analyzer, pass, diagnostics>>

NextMerge == CallMerge

SpecMerge == InitMerge /\ [][NextMerge]_vars

MergeDone == analyzer = "config" /\ pc \in {"merged", "merged twice"}

\* C30: after c.Merge(arg) the eight enable flags of c are those it had, the
\* Config arg points to is as it was, a nil arg or one whose two lists are
\* empty leaves c as it was, and a second call with the same arg leaves what
\* the first call left.
C30_MergeFrame ==
    MergeDone =>
        /\ Flags(ret.store[Receiver]) = Flags(pass.store[Receiver])
        /\ ret.store[Argument] = pass.store[Argument]
        /\ pass.arg # Nil => ret.store[pass.arg.ptr] = pass.store[pass.arg.ptr]
        /\ (\/ pass.arg = Nil
            \/ /\ pass.arg # Nil
               /\ Len(pass.store[pass.arg.ptr].LoggerTypePatterns) = 0
               /\ Len(pass.store[pass.arg.ptr].EnumTypeSuffixes) = 0)
                => ret.store = pass.store
        /\ pc = "merged twice" => ret.store = ret.first

\* C30 witness: the argument has other flags than the receiver, a pattern
\* list and no suffix list; after two calls the receiver has the argument's
\* patterns, its own suffixes and its own flags.
C30_Witness ==
    /\ analyzer = "config"
    /\ pc = "merged twice"
    /\ pass.arg = [ptr |-> Argument]
    /\ Flags(pass.store[Receiver]) = Flags(DefaultConfig)
    /\ Flags(pass.store[Argument]) = [f \in FlagNames |-> ~DefaultConfig[f]]
    /\ pass.store[Receiver].LoggerTypePatterns = <<<<"K","i","n","d">>>>
    /\ pass.store[Receiver].EnumTypeSuffixes = <<<<"K","i","n","d">>>>
    /\ pass.store[Argument].LoggerTypePatterns = <<<<"*","z","a","p",".","L","o","g","g","e","r">>>>
    /\ pass.store[Argument].EnumTypeSuffixes = <<>>
    /\ ret.store[Receiver].LoggerTypePatterns = <<<<"*","z","a","p",".","L","o","g","g","e","r">>>>
    /\ ret.store[Receiver].EnumTypeSuffixes = <<<<"K","i","n","d">>>>

====
